---- MODULE Spec2Model ----
(***************************************************************************)
(* project-tasks: run(output, args) of cli.py as a state machine.  The      *)
(* configuration is loaded (pyproject.py: every raw task is parsed, every   *)
(* task is resolved depth-first, the variables are parsed and turned into   *)
(* getters) and the request is executed (service.py).                       *)
(*                                                                         *)
(* A Python str is a sequence of tokens.  A token is one character, or one  *)
(* whole placeholder "${var.<name>}": the text of a placeholder is never    *)
(* split over two tokens.  A Python dict is a sequence of [key, value]      *)
(* records in insertion order.                                              *)
(***************************************************************************)
EXTENDS Integers, Sequences, FiniteSets, TLC

(***************************************************************************)
(* Bounds of the model.                                                     *)
(***************************************************************************)
\* Most task references ("deps" entries) in one document.
MaxRefs == 3
\* Most task names in one request.
MaxRequest == 2
\* Most changes of the files made while the commands of a request run.
MaxWorldChanges == 1

(***************************************************************************)
(* Python values.                                                           *)
(***************************************************************************)
None == [none |-> TRUE]
Some(v) == [none |-> FALSE, value |-> v]

\* dict: a sequence of [key |-> k, value |-> v] in insertion order.
Keys(d) == {d[i].key : i \in 1..Len(d)}
Has(d, k) == k \in Keys(d)
Get(d, k) == d[CHOOSE i \in 1..Len(d) : d[i].key = k].value
\* d[k] = v for a key that d does not hold yet.
Put(d, k, v) == Append(d, [key |-> k, value |-> v])

Last(s) == s[Len(s)]
Min(S) == CHOOSE i \in S : \A j \in S : i <= j

RECURSIVE Concat(_)
\* list.extend over a sequence of lists.
Concat(ss) == IF ss = <<>> THEN <<>> ELSE Head(ss) \o Concat(Tail(ss))

\* A decoded TOML value: its Python type and what it holds.
RStr(s) == [type |-> "str", str |-> s, items |-> <<>>, flag |-> FALSE]
RList(xs) == [type |-> "list", str |-> <<>>, items |-> xs, flag |-> FALSE]
\* A table: items is a dict of raw values.
RDict(kvs) == [type |-> "dict", str |-> <<>>, items |-> kvs, flag |-> FALSE]
RInt == [type |-> "int", str |-> <<>>, items |-> <<>>, flag |-> FALSE]
RBool(b) == [type |-> "bool", str |-> <<>>, items |-> <<>>, flag |-> b]
KV(k, v) == [key |-> k, value |-> v]

(***************************************************************************)
(* Errors.  An InvalidTaskDefinitionError is its class with the values its  *)
(* message is formatted from, each a str.                                   *)
(***************************************************************************)
TaskDefinitionError(kind, a, b) == [kind |-> kind, a |-> a, b |-> b]
EmptyTaskStepError == TaskDefinitionError("EmptyTaskStepError", <<>>, <<>>)
InvalidTaskStepTypeError(ty) == TaskDefinitionError("InvalidTaskStepTypeError", <<ty>>, <<>>)
InvalidTaskCmdTypeError(ty) == TaskDefinitionError("InvalidTaskCmdTypeError", <<ty>>, <<>>)
InvalidTaskCmdItemTypeError(ty) == TaskDefinitionError("InvalidTaskCmdItemTypeError", <<ty>>, <<>>)
InvalidTaskDictError(key) == TaskDefinitionError("InvalidTaskDictError", <<key>>, <<>>)
InvalidTaskDefinitionTypeError(ty) == TaskDefinitionError("InvalidTaskDefinitionTypeError", <<ty>>, <<>>)
\* InvalidTaskDefinitionError("wrong type '..': deps list items must be strings.")
InvalidDepsItemError(ty) == TaskDefinitionError("deps list items must be strings", <<ty>>, <<>>)
\* InvalidTaskDefinitionError("wrong type '..': deps must be a list of strings.")
InvalidDepsError(ty) == TaskDefinitionError("deps must be a list of strings", <<ty>>, <<>>)
CircularDependencyError(task_a, task_b) == TaskDefinitionError("CircularDependencyError", task_a, task_b)
UnknownTaskReferenceError(task_name, parent) == TaskDefinitionError("UnknownTaskReferenceError", task_name, parent)
NoReason == TaskDefinitionError("", <<>>, <<>>)

\* What run() ends with other than a return code: nothing, or an exception
\* that no handler of run() catches.
NoError == [class |-> "", name |-> <<>>, reason |-> NoReason]
InvalidTaskError(task_name, reason) == [class |-> "InvalidTaskError", name |-> task_name, reason |-> reason]
InvalidVariableError(var_name, why) ==
    [class |-> "InvalidVariableError", name |-> <<var_name>>,
     reason |-> TaskDefinitionError(why, <<>>, <<>>)]
ConfigErrors == {"InvalidTaskError", "InvalidVariableError", "TOMLDecodeError"}

(***************************************************************************)
(* Tasks parser.                                                            *)
(***************************************************************************)
_TaskCommand(steps) == [ref |-> FALSE, name |-> <<>>, steps |-> steps]
_TaskReference(name) == [ref |-> TRUE, name |-> name, steps |-> <<>>]
Parsed(steps) == [ok |-> TRUE, steps |-> steps, err |-> NoReason]
Raised(err) == [ok |-> FALSE, steps |-> <<>>, err |-> err]

\* The loop over the items of a list of strings: the first item that is no
\* string or is empty raises, else the strings.
ParseStrItems(items, TypeError(_)) ==
    LET bad == {i \in 1..Len(items) : items[i].type # "str" \/ items[i].str = <<>>}
    IN IF bad = {}
       THEN Parsed([i \in 1..Len(items) |-> items[i].str])
       ELSE IF items[Min(bad)].type = "str"
            THEN Raised(EmptyTaskStepError)
            ELSE Raised(TypeError(items[Min(bad)].type))

\* _parse_str_task_definition without the test of the empty string.
_parse_str_task_definitionLenient(definition) ==
    Parsed(<<_TaskCommand(<<definition.str>>)>>)

_parse_str_task_definition(definition) ==
    IF definition.str = <<>>
    THEN Raised(EmptyTaskStepError)
    ELSE Parsed(<<_TaskCommand(<<definition.str>>)>>)

_parse_list_task_definition(definition) ==
    LET r == ParseStrItems(definition.items, InvalidTaskStepTypeError)
    IN IF r.ok THEN Parsed(<<_TaskCommand(r.steps)>>) ELSE r

\* The value of a "cmd" key.
ParseCmd(value) ==
    IF value.type = "str"
    THEN IF value.str = <<>>
         THEN Raised(EmptyTaskStepError)
         ELSE Parsed(<<_TaskCommand(<<value.str>>)>>)
    ELSE IF value.type = "list"
         THEN LET r == ParseStrItems(value.items, InvalidTaskCmdItemTypeError)
              IN IF r.ok THEN Parsed(<<_TaskCommand(r.steps)>>) ELSE r
         ELSE Raised(InvalidTaskCmdTypeError(value.type))

\* The value of a "deps" key.
ParseDeps(value) ==
    IF value.type = "list"
    THEN LET bad == {i \in 1..Len(value.items) : value.items[i].type # "str"}
         IN IF bad = {}
            THEN Parsed([i \in 1..Len(value.items) |-> _TaskReference(value.items[i].str)])
            ELSE Raised(InvalidDepsItemError(value.items[Min(bad)].type))
    ELSE Raised(InvalidDepsError(value.type))

RECURSIVE ParseDictItems(_, _)
\* The loop over definition.items(), steps being the steps appended so far.
ParseDictItems(kvs, steps) ==
    IF kvs = <<>>
    THEN Parsed(steps)
    ELSE LET key == Head(kvs).key
             r == IF key = "cmd" THEN ParseCmd(Head(kvs).value)
                  ELSE IF key = "deps" THEN ParseDeps(Head(kvs).value)
                  ELSE Raised(InvalidTaskDictError(key))
         IN IF r.ok THEN ParseDictItems(Tail(kvs), steps \o r.steps) ELSE r

IsDepsItem(kv) == kv.key = "deps"
IsOtherItem(kv) == kv.key # "deps"
\* _parse_dict_task_definition reading the "deps" key before the other keys.
_parse_dict_task_definitionDepsFirst(definition) ==
    ParseDictItems(SelectSeq(definition.items, IsDepsItem)
                       \o SelectSeq(definition.items, IsOtherItem), <<>>)

_parse_dict_task_definition(definition) == ParseDictItems(definition.items, <<>>)

_parse_task_definition(definition) ==
    IF definition.type = "str" THEN _parse_str_task_definition(definition)
    ELSE IF definition.type = "list" THEN _parse_list_task_definition(definition)
    ELSE IF definition.type = "dict" THEN _parse_dict_task_definition(definition)
    ELSE Raised(InvalidTaskDefinitionTypeError(definition.type))

RECURSIVE ParseTasksFrom(_, _)
\* The loop of _parse_all_tasks_definitions, tasks_definitions being the
\* dict built so far: the first definition that raises ends it.
ParseTasksFrom(mapping, tasks_definitions) ==
    IF mapping = <<>>
    THEN [ok |-> TRUE, value |-> tasks_definitions, error |-> NoError]
    ELSE LET r == _parse_task_definition(Head(mapping).value)
         IN IF r.ok
            THEN ParseTasksFrom(Tail(mapping), Put(tasks_definitions, Head(mapping).key, r.steps))
            ELSE [ok |-> FALSE, value |-> <<>>, error |-> InvalidTaskError(Head(mapping).key, r.err)]

_parse_all_tasks_definitions(mapping) == ParseTasksFrom(mapping, <<>>)

(***************************************************************************)
(* Tasks resolver.                                                          *)
(***************************************************************************)
\* A call of _resolve_task in progress: its task, its parents (the task
\* included), the index of the next item of the definition and the
\* commands resolved so far.
Frame(task_name, parents) ==
    [task_name |-> task_name, parents |-> parents, idx |-> 1, resolved |-> <<>>]
NoFrame == Frame(<<>>, <<>>)
Entered(frame) == [ok |-> TRUE, frame |-> frame, err |-> NoReason, exc |-> ""]
EnterRaised(err) == [ok |-> FALSE, frame |-> NoFrame, err |-> err, exc |-> ""]
EnterCrashed(exc) == [ok |-> FALSE, frame |-> NoFrame, err |-> NoReason, exc |-> exc]

InParents(task_name, parents) == \E i \in 1..Len(parents) : parents[i] = task_name

\* ResolveEnter naming the outermost caller in place of the innermost one.
ResolveEnterOutermost(graph, task_name, parents) ==
    IF InParents(task_name, parents)
    THEN EnterRaised(CircularDependencyError(parents[1], task_name))
    ELSE IF ~Has(graph, task_name)
         THEN IF parents = <<>>
              THEN EnterCrashed("IndexError")
              ELSE EnterRaised(UnknownTaskReferenceError(task_name, parents[1]))
         ELSE Entered(Frame(task_name, Append(parents, task_name)))

\* ResolveEnter without the test of the parents.
ResolveEnterUnchecked(graph, task_name, parents) ==
    IF ~Has(graph, task_name)
    THEN IF parents = <<>>
         THEN EnterCrashed("IndexError")
         ELSE EnterRaised(UnknownTaskReferenceError(task_name, Last(parents)))
    ELSE Entered(Frame(task_name, Append(parents, task_name)))

\* The head of _resolve_task, up to the loop over the steps.
ResolveEnter(graph, task_name, parents) ==
    IF InParents(task_name, parents)
    THEN EnterRaised(CircularDependencyError(Last(parents), task_name))
    ELSE IF ~Has(graph, task_name)
         THEN IF parents = <<>>
              \* parents[-1] of the empty tuple
              THEN EnterCrashed("IndexError")
              ELSE EnterRaised(UnknownTaskReferenceError(task_name, Last(parents)))
         ELSE Entered(Frame(task_name, Append(parents, task_name)))

\* Extend putting the steps first.
ExtendFront(resolved, steps) == steps \o resolved
\* Extend leaving out the steps that resolved already holds.
ExtendUnique(resolved, steps) ==
    LET IsNew(step) == \A i \in 1..Len(resolved) : resolved[i] # step
    IN resolved \o SelectSeq(steps, IsNew)

\* resolved.extend(steps)
Extend(resolved, steps) == resolved \o steps

(***************************************************************************)
(* Variables parser and resolver.                                           *)
(***************************************************************************)
\* VARIABLE_PATTERN: the placeholder tokens and the name each captures.
VarNames == {"foo", "bar", "baz"}
Placeholder(name) ==
    CASE name = "foo" -> "${var.foo}"
      [] name = "bar" -> "${var.bar}"
      [] name = "baz" -> "${var.baz}"
Placeholders == {Placeholder(n) : n \in VarNames}
NameOf(token) == CHOOSE n \in VarNames : Placeholder(n) = token

\* len() of one token: the placeholders above are ten characters long.
TokenLen(token) == IF token \in Placeholders THEN 10 ELSE 1
RECURSIVE StrLen(_)
\* len(s)
StrLen(s) == IF s = <<>> THEN 0 ELSE TokenLen(Head(s)) + StrLen(Tail(s))
\* "*" * n
Stars(n) == [i \in 1..n |-> "*"]

_VariableDefinition(default, env, file, secret) ==
    [default |-> default, env |-> env, file |-> file, secret |-> secret]
VariableKeys == {"default", "env", "file", "secret"}
\* raw.get(key, None)
RawGet(raw, key) == IF Has(raw, key) THEN Some(Get(raw, key)) ELSE None

VarsParsed(value) == [ok |-> TRUE, value |-> value, error |-> NoError, exc |-> ""]
VarsRaised(error) == [ok |-> FALSE, value |-> <<>>, error |-> error, exc |-> ""]
VarsCrashed(exc) == [ok |-> FALSE, value |-> <<>>, error |-> NoError, exc |-> exc]

RECURSIVE ParseVariablesFrom(_, _)
\* The loop of _parse_all_variables_definitions, variables being the dict
\* built so far.
ParseVariablesFrom(mapping, variables) ==
    IF mapping = <<>>
    THEN VarsParsed(variables)
    ELSE LET var_name == Head(mapping).key
             raw_definition == Head(mapping).value
             raw == raw_definition.items
             bad == {i \in 1..Len(raw) : raw[i].key \notin VariableKeys}
         IN IF raw_definition.type = "str"
            THEN ParseVariablesFrom(Tail(mapping),
                     Put(variables, var_name,
                         _VariableDefinition(Some(raw_definition), None, None, RBool(FALSE))))
            ELSE IF raw_definition.type = "dict"
                 THEN IF bad # {}
                      THEN VarsRaised(InvalidVariableError(var_name, "wrong key"))
                      ELSE IF Has(raw, "file") /\ Get(raw, "file").type # "str"
                           \* Path(raw["file"])
                           THEN VarsCrashed("TypeError")
                           ELSE ParseVariablesFrom(Tail(mapping),
                                    Put(variables, var_name,
                                        _VariableDefinition(
                                            RawGet(raw, "default"),
                                            RawGet(raw, "env"),
                                            RawGet(raw, "file"),
                                            IF Has(raw, "secret") THEN Get(raw, "secret") ELSE RBool(FALSE))))
                 ELSE VarsRaised(InvalidVariableError(var_name, "wrong type"))

_parse_all_variables_definitions(mapping) == ParseVariablesFrom(mapping, <<>>)

\* A Variable: the secret flag, and what its getter has captured.
Variable(name, definition) ==
    [name |-> name, env |-> definition.env, file |-> definition.file,
     default |-> definition.default, secret |-> definition.secret]

_resolve_all_variables(variables) ==
    [i \in 1..Len(variables) |->
        KV(variables[i].key, Variable(variables[i].key, variables[i].value))]

\* parse_variables(values): the Variables, unless a definition raises.
ParseVariables(values) ==
    LET r == _parse_all_variables_definitions(values)
    IN IF r.ok THEN VarsParsed(_resolve_all_variables(r.value)) ELSE r

\* What a call gives: a value, or the exception it raises.
Returned(value) == [ok |-> TRUE, value |-> value, exc |-> "", name |-> ""]
Threw(exc, name) == [ok |-> FALSE, value |-> RStr(<<>>), exc |-> exc, name |-> name]

\* os.environ and the file system: the value of each name, if any.  The
\* variables name one environment variable, E, and one file, F.
NoEnviron == [e \in {<<"E">>} |-> None]
NoFiles == [f \in {<<"F">>} |-> None]
InEnviron(environ, env) == env \in DOMAIN environ /\ ~environ[env].none
Exists(files, file) == file \in DOMAIN files /\ ~files[file].none

\* getter giving the empty string where no value is defined.
getterEmpty(variable, override, environ, files) ==
    IF ~override.none
    THEN Returned(RStr(override.value))
    ELSE IF ~variable.env.none /\ InEnviron(environ, variable.env.value.str)
         THEN Returned(RStr(environ[variable.env.value.str].value))
         ELSE IF ~variable.file.none /\ Exists(files, variable.file.value.str)
              THEN Returned(RStr(files[variable.file.value.str].value))
              ELSE IF ~variable.default.none
                   THEN Returned(variable.default.value)
                   ELSE Returned(RStr(<<>>))

\* getter taking an environment variable set to the empty string as unset.
getterTruthy(variable, override, environ, files) ==
    IF ~override.none
    THEN Returned(RStr(override.value))
    ELSE IF /\ ~variable.env.none
            /\ InEnviron(environ, variable.env.value.str)
            /\ environ[variable.env.value.str].value # <<>>
         THEN Returned(RStr(environ[variable.env.value.str].value))
         ELSE IF ~variable.file.none /\ Exists(files, variable.file.value.str)
              THEN Returned(RStr(files[variable.file.value.str].value))
              ELSE IF ~variable.default.none
                   THEN Returned(variable.default.value)
                   ELSE Threw("ValueError", variable.name)

\* getter looking at the environment before the override.
getterEnvFirst(variable, override, environ, files) ==
    IF ~variable.env.none /\ InEnviron(environ, variable.env.value.str)
    THEN Returned(RStr(environ[variable.env.value.str].value))
    ELSE IF ~override.none
         THEN Returned(RStr(override.value))
         ELSE IF ~variable.file.none /\ Exists(files, variable.file.value.str)
              THEN Returned(RStr(files[variable.file.value.str].value))
              ELSE IF ~variable.default.none
                   THEN Returned(variable.default.value)
                   ELSE Threw("ValueError", variable.name)

\* The getter of a Variable, called with the override (None, or a str) when
\* the environment and the files are environ and files.
getter(variable, override, environ, files) ==
    IF ~override.none
    THEN Returned(RStr(override.value))
    ELSE IF ~variable.env.none /\ variable.env.value.type # "str"
         \* a key of os.environ is a str
         THEN Threw("TypeError", variable.name)
         ELSE IF ~variable.env.none /\ InEnviron(environ, variable.env.value.str)
              THEN Returned(RStr(environ[variable.env.value.str].value))
              ELSE IF ~variable.file.none /\ Exists(files, variable.file.value.str)
                   THEN Returned(RStr(files[variable.file.value.str].value))
                   ELSE IF ~variable.default.none
                        THEN Returned(variable.default.value)
                        ELSE Threw("ValueError", variable.name)

\* bool(value)
Truthy(value) ==
    CASE value.type = "bool" -> value.flag
      [] value.type = "str" -> value.str # <<>>
      [] value.type \in {"list", "dict"} -> value.items # <<>>
      [] OTHER -> TRUE

\* Mask of three stars whatever the value.
MaskFixed(value) == Returned(RStr(<<"*", "*", "*">>))

\* The mask of a secret value under dry_run.
Mask(value) ==
    IF value.type = "str" THEN Returned(RStr(Stars(StrLen(value.str))))
    ELSE IF value.type \in {"list", "dict"} THEN Returned(RStr(Stars(Len(value.items))))
    ELSE Threw("TypeError", "")

\* Variable.get
VariableGet(variable, override, dry_run, environ, files) ==
    LET value == getter(variable, override, environ, files)
    IN IF ~value.ok THEN value
       ELSE IF dry_run /\ Truthy(variable.secret) THEN Mask(value.value)
       ELSE value

(***************************************************************************)
(* Config.get_task.                                                         *)
(***************************************************************************)
IsPlaceholder(token) == token \in Placeholders
\* VARIABLE_PATTERN.findall(step): the captured names, in order of occurrence.
FindAll(step) ==
    LET found == SelectSeq(step, IsPlaceholder)
    IN [i \in 1..Len(found) |-> NameOf(found[i])]

\* step.replace(old, new), old being one token.
Replace(step, old, new) ==
    Concat([i \in 1..Len(step) |-> IF step[i] = old THEN new ELSE <<step[i]>>])

\* override_variables.get(variable_name, None)
OverrideGet(override_variables, variable_name) ==
    IF Has(override_variables, variable_name)
    THEN Some(Get(override_variables, variable_name))
    ELSE None

\* VariableValue with the empty string for a variable that is not defined.
VariableValueLenient(variables, variable_name, override_variables, environ, files) ==
    IF ~Has(variables, variable_name)
    THEN Returned(RStr(<<>>))
    ELSE VariableGet(Get(variables, variable_name),
                     OverrideGet(override_variables, variable_name),
                     FALSE, environ, files)

\* self.variables[variable_name].get(override_variables.get(variable_name, None))
VariableValue(variables, variable_name, override_variables, environ, files) ==
    IF ~Has(variables, variable_name)
    THEN Threw("KeyError", variable_name)
    ELSE VariableGet(Get(variables, variable_name),
                     OverrideGet(override_variables, variable_name),
                     FALSE, environ, files)

RECURSIVE ReplaceFrom(_, _, _, _, _, _)
\* The loop over to_replace of one step.
ReplaceFrom(step, to_replace, variables, override_variables, environ, files) ==
    IF to_replace = <<>>
    THEN Returned(RStr(step))
    ELSE LET variable_name == Head(to_replace)
             variable_value == VariableValue(variables, variable_name,
                                             override_variables, environ, files)
         IN IF ~variable_value.ok
            THEN variable_value
            ELSE IF variable_value.value.type # "str"
                 \* str.replace takes a str
                 THEN Threw("TypeError", variable_name)
                 ELSE ReplaceFrom(Replace(step, Placeholder(variable_name),
                                          variable_value.value.str),
                                  Tail(to_replace), variables, override_variables,
                                  environ, files)

TaskReturned(steps) == [ok |-> TRUE, steps |-> steps, exc |-> "", name |-> ""]
TaskThrew(exc, name) == [ok |-> FALSE, steps |-> <<>>, exc |-> exc, name |-> name]

RECURSIVE GetTaskFrom(_, _, _, _, _, _)
\* The loop over task.steps, resolved being resolved_task.steps so far.
GetTaskFrom(steps, resolved, variables, override_variables, environ, files) ==
    IF steps = <<>>
    THEN TaskReturned(resolved)
    ELSE LET step == ReplaceFrom(Head(steps), FindAll(Head(steps)), variables,
                                 override_variables, environ, files)
         IN IF ~step.ok
            THEN TaskThrew(step.exc, step.name)
            ELSE GetTaskFrom(Tail(steps), Append(resolved, step.value.str),
                             variables, override_variables, environ, files)

\* Config.get_task of the config (tasks, variables).
get_task(tasks, variables, task_name, override_variables, environ, files) ==
    IF ~Has(tasks, task_name)
    THEN TaskThrew("KeyError", "")
    ELSE GetTaskFrom(Get(tasks, task_name), <<>>, variables, override_variables,
                     environ, files)

(***************************************************************************)
(* The state of one run(output, args).                                      *)
(***************************************************************************)
VARIABLES
    argv,               \* run(output, args): args, where parse_args is what is modelled
    document,           \* the pyproject file: what it decodes to
    should_list,        \* parse_args: --list
    request,            \* parse_args: the Request
    environ,            \* os.environ
    files,              \* the files a variable may name
    pc,                 \* where run() is
    tasks_definitions,  \* parse_tasks: the parsed definitions
    pos,                \* _resolve_all_tasks: the index of task_name in graph
    stack,              \* the calls of _resolve_task in progress, innermost last
    tasks,              \* config.tasks
    variables,          \* config.variables
    req_idx,            \* Service.execute: the index of task_name in request.tasks
    task,               \* Service.execute: task.steps
    cmd_idx,            \* Service.execute: the index of command in task.steps
    executed,           \* the commands the executor was run with
    codes,              \* what the executor returned for each of them
    changes,            \* the changes of the files made by the commands so far
    stdout,             \* output.write
    stderr,             \* output.write_error
    return_code,        \* what run() returned, once it has
    error,              \* the configuration error reported, or the exception run() raised
    got                 \* the last call of Variable.get made on its own, outside run()

vars == <<argv, document, should_list, request, environ, files, pc, tasks_definitions,
          pos, stack, tasks, variables, req_idx, task, cmd_idx, executed, codes, changes,
          stdout, stderr, return_code, error, got>>
\* What run() is given and does not change.
inputs == <<argv, document, should_list, request, environ, got>>
config == <<tasks, variables>>
loading == <<tasks_definitions, pos, stack>>
executing == <<req_idx, task, cmd_idx, executed, codes, changes, files>>
outputs == <<stdout, stderr, return_code, error>>

Request(task_names, override_variables, dry_run) ==
    [tasks |-> task_names, variables |-> override_variables, dry_run |-> dry_run]
Document(source, raw_tasks, raw_variables) ==
    [source |-> source, tasks |-> raw_tasks, variables |-> raw_variables]

\* A line of the error output: the format, and the values formatted into it.
Message(text, err, names, code) ==
    [text |-> text, error |-> err, names |-> names, code |-> code]
ConfigMessage(err) == Message("task: error: {exc.msg}", err, <<>>, 0)
\* name: the variable the exception is about, if any.
Uncaught(exc, name) ==
    [class |-> exc, name |-> IF name = "" THEN <<>> ELSE <<name>>, reason |-> NoReason]

\* The exit codes of a command.
ReturnCodes == {0, 1, 2}

\* A call variable.get(override, dry_run) made when the environment and the
\* files were env and fs: value is what the getter gave, result what get gave,
\* before what the getter gave to the call before, if that call was made with
\* the same override.
Call(name, override, dry_run, env, fs, value, result, before) ==
    [called |-> TRUE, name |-> name, override |-> override, dry_run |-> dry_run,
     environ |-> env, files |-> fs, value |-> value, result |-> result,
     before |-> before]
NoCall ==
    [called |-> FALSE, name |-> "", override |-> None, dry_run |-> FALSE,
     environ |-> NoEnviron, files |-> NoFiles, before |-> None,
     value |-> Returned(RStr(<<>>)), result |-> Returned(RStr(<<>>))]

StartAt(doc, list, req, env, fs, at, vs) ==
    /\ document = doc
    /\ should_list = list
    /\ request = req
    /\ environ = env
    /\ files = fs
    /\ pc = at
    /\ tasks_definitions = <<>>
    /\ pos = 1
    /\ stack = <<>>
    /\ tasks = <<>>
    /\ variables = vs
    /\ req_idx = 1
    /\ task = <<>>
    /\ cmd_idx = 1
    /\ executed = <<>>
    /\ codes = <<>>
    /\ changes = 0
    /\ stdout = <<>>
    /\ stderr = <<>>
    /\ return_code = None
    /\ error = NoError
    /\ got = NoCall

\* run() is called.
Start(doc, list, req, env, fs) ==
    /\ argv = <<>>
    /\ StartAt(doc, list, req, env, fs, "parse_pyproject_file", <<>>)

(***************************************************************************)
(* run(): the configuration is loaded.                                      *)
(***************************************************************************)
\* run() returns code.
Return(code) ==
    /\ return_code' = Some(code)
    /\ pc' = "returned"

\* An InvalidConfigError reaches the handler of run().
ReportConfigError(err) ==
    /\ error' = err
    /\ stderr' = Append(stderr, ConfigMessage(err))
    /\ stdout' = stdout
    /\ Return(1)

\* An exception that run() does not handle leaves run().
Crash(exc, name) ==
    /\ error' = Uncaught(exc, name)
    /\ pc' = "raised"
    /\ UNCHANGED <<stdout, stderr, return_code>>

\* parse_pyproject_file and parse_pyproject_content: the file is read and
\* decoded.
parse_pyproject_file ==
    /\ pc = "parse_pyproject_file"
    /\ CASE document.source = "missing" ->
              /\ stderr' = Append(stderr,
                     Message("task: error: pyproject file not found: {filename}",
                             NoError, <<>>, 0))
              /\ Return(1)
              /\ UNCHANGED <<stdout, error>>
         [] document.source = "undecodable" ->
              ReportConfigError([class |-> "TOMLDecodeError", name |-> <<>>, reason |-> NoReason])
         [] OTHER ->
              /\ pc' = "parse_tasks"
              /\ UNCHANGED outputs
    /\ UNCHANGED <<inputs, config, loading, executing>>

\* parse_tasks after the variables have been parsed.
parse_tasksVariablesFirst ==
    /\ pc = "parse_tasks"
    /\ LET v == ParseVariables(document.variables)
           r == _parse_all_tasks_definitions(document.tasks)
       IN IF ~v.ok /\ v.exc = ""
          THEN /\ ReportConfigError(v.error)
               /\ UNCHANGED tasks_definitions
          ELSE IF r.ok
               THEN /\ tasks_definitions' = r.value
                    /\ pc' = "_resolve_all_tasks"
                    /\ UNCHANGED outputs
               ELSE /\ ReportConfigError(r.error)
                    /\ UNCHANGED tasks_definitions
    /\ UNCHANGED <<inputs, config, pos, stack, executing>>

\* parse_tasks, first half: _parse_all_tasks_definitions.
parse_tasks ==
    /\ pc = "parse_tasks"
    /\ LET r == _parse_all_tasks_definitions(document.tasks)
       IN IF r.ok
          THEN /\ tasks_definitions' = r.value
               /\ pc' = "_resolve_all_tasks"
               /\ UNCHANGED outputs
          ELSE /\ ReportConfigError(r.error)
               /\ UNCHANGED tasks_definitions
    /\ UNCHANGED <<inputs, config, pos, stack, executing>>

\* ToResolve leaving out the tasks that the request does not name.
ToResolveRequested(graph) ==
    LET IsRequested(t) == \E i \in 1..Len(request.tasks) : request.tasks[i] = t
    IN SelectSeq([i \in 1..Len(graph) |-> graph[i].key], IsRequested)

\* ToResolve giving the names of the request, keys of the graph or not.
ToResolveAsked(graph) == request.tasks

\* for task_name in graph
ToResolve(graph) == [i \in 1..Len(graph) |-> graph[i].key]
\* The task _resolve_all_tasks is resolving.
TopTask == ToResolve(tasks_definitions)[pos]

\* _resolve_task raises err, or crashes: _resolve_all_tasks wraps an
\* InvalidTaskDefinitionError in the InvalidTaskError of its task.
ResolveFails(entered) ==
    /\ IF entered.exc = ""
       THEN ReportConfigError(InvalidTaskError(TopTask, entered.err))
       ELSE Crash(entered.exc, "")
    /\ UNCHANGED <<inputs, config, loading, executing>>

\* _resolve_all_tasks: the next task_name of the graph is resolved with no
\* parents, or the loop ends.
_resolve_all_tasks ==
    /\ pc = "_resolve_all_tasks"
    /\ stack = <<>>
    /\ IF pos > Len(ToResolve(tasks_definitions))
       THEN /\ pc' = "parse_variables"
            /\ UNCHANGED <<inputs, config, loading, executing, outputs>>
       ELSE LET entered == ResolveEnter(tasks_definitions, TopTask, <<>>)
            IN IF entered.ok
               THEN /\ stack' = <<entered.frame>>
                    /\ UNCHANGED <<inputs, config, tasks_definitions, pos, pc,
                                   executing, outputs>>
               ELSE ResolveFails(entered)

Top == stack[Len(stack)]
TopSteps == Get(tasks_definitions, Top.task_name)
WithTop(frame) == [stack EXCEPT ![Len(stack)] = frame]

\* _resolve_task, an item that is a _TaskCommand.
resolve_command ==
    /\ pc = "_resolve_all_tasks"
    /\ stack # <<>>
    /\ Top.idx <= Len(TopSteps)
    /\ ~TopSteps[Top.idx].ref
    /\ stack' = WithTop([Top EXCEPT !.resolved = Extend(@, TopSteps[Top.idx].steps),
                                   !.idx = @ + 1])
    /\ UNCHANGED <<inputs, config, tasks_definitions, pos, pc, executing, outputs>>

\* _resolve_task, an item that is a _TaskReference: the recursive call.
resolve_reference ==
    /\ pc = "_resolve_all_tasks"
    /\ stack # <<>>
    /\ Top.idx <= Len(TopSteps)
    /\ TopSteps[Top.idx].ref
    /\ LET entered == ResolveEnter(tasks_definitions, TopSteps[Top.idx].name, Top.parents)
       IN IF entered.ok
          THEN /\ stack' = Append(stack, entered.frame)
               /\ UNCHANGED <<inputs, config, tasks_definitions, pos, pc, executing,
                              outputs>>
          ELSE ResolveFails(entered)

\* _resolve_task returns Task(resolved): to the call that made it, which
\* extends its own resolved, or to _resolve_all_tasks, which stores it.
resolve_return ==
    /\ pc = "_resolve_all_tasks"
    /\ stack # <<>>
    /\ Top.idx > Len(TopSteps)
    /\ IF Len(stack) = 1
       THEN /\ tasks' = Put(tasks, Top.task_name, Top.resolved)
            /\ pos' = pos + 1
            /\ stack' = <<>>
       ELSE LET caller == stack[Len(stack) - 1]
            IN /\ stack' = Append(SubSeq(stack, 1, Len(stack) - 2),
                                  [caller EXCEPT !.resolved = Extend(@, Top.resolved),
                                                 !.idx = @ + 1])
               /\ UNCHANGED <<tasks, pos>>
    /\ UNCHANGED <<inputs, variables, tasks_definitions, pc, executing, outputs>>

\* parse_variables, and the Config is made.
parse_variables ==
    /\ pc = "parse_variables"
    /\ LET r == ParseVariables(document.variables)
       IN IF r.ok
          THEN /\ variables' = r.value
               /\ pc' = IF should_list THEN "list" ELSE "execute"
               /\ UNCHANGED outputs
          ELSE /\ IF r.exc = "" THEN ReportConfigError(r.error) ELSE Crash(r.exc, "")
               /\ UNCHANGED variables
    /\ UNCHANGED <<inputs, tasks, loading, executing>>

(***************************************************************************)
(* run(): --list, or Service.execute(request).                              *)
(***************************************************************************)
\* for task in config.tasks: output.write(task)
list_tasks ==
    /\ pc = "list"
    /\ stdout' = stdout \o [i \in 1..Len(tasks) |-> tasks[i].key]
    /\ Return(0)
    /\ UNCHANGED <<inputs, config, loading, executing, stderr, error>>

IsUnknown(task_name) == ~Has(tasks, task_name)
\* UnknownTasks that stops at the first unknown name.
UnknownTasksFirst(task_names) ==
    LET unknown == SelectSeq(task_names, IsUnknown)
    IN IF unknown = <<>> THEN <<>> ELSE <<Head(unknown)>>
\* The requested names that config.tasks does not hold, in request order.
UnknownTasks(task_names) == SelectSeq(task_names, IsUnknown)

\* Service.execute, up to the loop over the tasks.
execute_check ==
    /\ pc = "execute"
    /\ LET unknown_tasks == UnknownTasks(request.tasks)
       IN IF unknown_tasks # <<>>
          THEN /\ stderr' = Append(stderr,
                      IF Len(unknown_tasks) > 1
                      THEN Message("task: error: tasks do not exist: {unknown_tasks}",
                                   NoError, unknown_tasks, 0)
                      ELSE Message("task: error: task do not exist: '{unknown_tasks[0]}'",
                                   NoError, <<unknown_tasks[1]>>, 0))
               /\ Return(1)
               /\ UNCHANGED <<stdout, error>>
          ELSE /\ pc' = "tasks"
               /\ UNCHANGED outputs
    /\ UNCHANGED <<inputs, config, loading, executing>>

\* execute_get_task with a get_task that substitutes the steps of the task
\* of the Config in place.
execute_get_taskInPlace ==
    /\ pc = "tasks"
    /\ IF req_idx > Len(request.tasks)
       THEN /\ Return(0)
            /\ UNCHANGED <<task, cmd_idx, stdout, stderr, error, tasks>>
       ELSE LET fetched == get_task(tasks, variables, request.tasks[req_idx],
                                    request.variables, environ, files)
            IN IF fetched.ok
               THEN /\ task' = fetched.steps
                    /\ tasks' = Put(tasks, request.tasks[req_idx], fetched.steps)
                    /\ cmd_idx' = 1
                    /\ pc' = "commands"
                    /\ UNCHANGED outputs
               ELSE /\ Crash(fetched.exc, fetched.name)
                    /\ UNCHANGED <<task, cmd_idx, tasks>>
    /\ UNCHANGED <<inputs, variables, loading, req_idx, executed, codes, changes, files>>

\* The loop over request.tasks: config.get_task of the next one, or return 0.
execute_get_task ==
    /\ pc = "tasks"
    /\ IF req_idx > Len(request.tasks)
       THEN /\ Return(0)
            /\ UNCHANGED <<task, cmd_idx, stdout, stderr, error>>
       ELSE LET fetched == get_task(tasks, variables, request.tasks[req_idx],
                                    request.variables, environ, files)
            IN IF fetched.ok
               THEN /\ task' = fetched.steps
                    /\ cmd_idx' = 1
                    /\ pc' = "commands"
                    /\ UNCHANGED outputs
               ELSE /\ Crash(fetched.exc, fetched.name)
                    /\ UNCHANGED <<task, cmd_idx>>
    /\ UNCHANGED <<inputs, config, loading, req_idx, executed, codes, changes, files>>

\* The loop over task.steps ends: the next task.
execute_next_task ==
    /\ pc = "commands"
    /\ cmd_idx > Len(task)
    /\ req_idx' = req_idx + 1
    /\ pc' = "tasks"
    /\ UNCHANGED <<inputs, config, loading, task, cmd_idx, executed, codes, changes,
                   files,
                   outputs>>

\* execute_write running the command as well.
execute_writeRun ==
    /\ pc = "commands"
    /\ cmd_idx <= Len(task)
    /\ request.dry_run
    /\ stdout' = Append(stdout, task[cmd_idx])
    /\ executed' = Append(executed, task[cmd_idx])
    /\ codes' = Append(codes, 0)
    /\ cmd_idx' = cmd_idx + 1
    /\ UNCHANGED <<inputs, config, loading, req_idx, task, changes, files,
                   pc, stderr, return_code, error>>

\* dry_run: output.write(command)
execute_write ==
    /\ pc = "commands"
    /\ cmd_idx <= Len(task)
    /\ request.dry_run
    /\ stdout' = Append(stdout, task[cmd_idx])
    /\ cmd_idx' = cmd_idx + 1
    /\ UNCHANGED <<inputs, config, loading, req_idx, task, executed, codes, changes,
                   files,
                   pc, stderr, return_code, error>>

\* What one command may leave of the environment and of the files: a
\* variable unset or set, a file removed or written.
EnvironChanges ==
    {[environ EXCEPT ![e] = v] : e \in DOMAIN environ, v \in {None, Some(<<"g">>)}}
        \ {environ}
FileChanges ==
    {[files EXCEPT ![f] = v] : f \in DOMAIN files, v \in {None, Some(<<"g">>)}} \ {files}

\* execute_run going on to the next command whatever the code.
execute_runOn ==
    /\ pc = "commands"
    /\ cmd_idx <= Len(task)
    /\ ~request.dry_run
    /\ executed' = Append(executed, task[cmd_idx])
    /\ \/ UNCHANGED <<environ, files, changes>>
       \/ /\ changes < MaxWorldChanges
          /\ \/ files' \in FileChanges /\ UNCHANGED environ
             \/ environ' \in EnvironChanges /\ UNCHANGED files
          /\ changes' = changes + 1
    /\ \E code \in ReturnCodes : codes' = Append(codes, code)
    /\ cmd_idx' = cmd_idx + 1
    /\ UNCHANGED <<argv, document, should_list, request, got, config, loading, req_idx, task, pc, outputs>>

\* execute_run returning 1 for every code other than 0.
execute_runOne ==
    /\ pc = "commands"
    /\ cmd_idx <= Len(task)
    /\ ~request.dry_run
    /\ executed' = Append(executed, task[cmd_idx])
    /\ \/ UNCHANGED <<environ, files, changes>>
       \/ /\ changes < MaxWorldChanges
          /\ \/ files' \in FileChanges /\ UNCHANGED environ
             \/ environ' \in EnvironChanges /\ UNCHANGED files
          /\ changes' = changes + 1
    /\ \E code \in ReturnCodes :
          /\ codes' = Append(codes, code)
          /\ IF code # 0
             THEN /\ stderr' = Append(stderr,
                         Message("task: error: task {task_name} failed with exit code {return_code}",
                                 NoError, <<request.tasks[req_idx]>>, code))
                  /\ Return(1)
                  /\ UNCHANGED <<cmd_idx, stdout, error>>
             ELSE /\ cmd_idx' = cmd_idx + 1
                  /\ UNCHANGED <<pc, outputs>>
    /\ UNCHANGED <<argv, document, should_list, request, got, config, loading, req_idx, task>>

\* execute_run substituting the variables of each command as it is reached.
execute_runLazy ==
    /\ pc = "commands"
    /\ cmd_idx <= Len(task)
    /\ ~request.dry_run
    /\ LET fetched == get_task(tasks, variables, request.tasks[req_idx],
                               request.variables, environ, files)
       IN executed' = Append(executed,
                             IF fetched.ok THEN fetched.steps[cmd_idx] ELSE task[cmd_idx])
    /\ \/ UNCHANGED <<environ, files, changes>>
       \/ /\ changes < MaxWorldChanges
          /\ \/ files' \in FileChanges /\ UNCHANGED environ
             \/ environ' \in EnvironChanges /\ UNCHANGED files
          /\ changes' = changes + 1
    /\ \E code \in ReturnCodes :
          /\ codes' = Append(codes, code)
          /\ IF code # 0
             THEN /\ stderr' = Append(stderr,
                         Message("task: error: task {task_name} failed with exit code {return_code}",
                                 NoError, <<request.tasks[req_idx]>>, code))
                  /\ Return(code)
                  /\ UNCHANGED <<cmd_idx, stdout, error>>
             ELSE /\ cmd_idx' = cmd_idx + 1
                  /\ UNCHANGED <<pc, outputs>>
    /\ UNCHANGED <<argv, document, should_list, request, got, config, loading, req_idx, task>>

\* self.executor.run(command): the command runs, changes the environment or
\* the files or neither, and exits with some code; a code other than 0 ends
\* execute.
execute_run ==
    /\ pc = "commands"
    /\ cmd_idx <= Len(task)
    /\ ~request.dry_run
    /\ executed' = Append(executed, task[cmd_idx])
    /\ \/ UNCHANGED <<environ, files, changes>>
       \/ /\ changes < MaxWorldChanges
          /\ \/ files' \in FileChanges /\ UNCHANGED environ
             \/ environ' \in EnvironChanges /\ UNCHANGED files
          /\ changes' = changes + 1
    /\ \E code \in ReturnCodes :
          /\ codes' = Append(codes, code)
          /\ IF code # 0
             THEN /\ stderr' = Append(stderr,
                         Message("task: error: task {task_name} failed with exit code {return_code}",
                                 NoError, <<request.tasks[req_idx]>>, code))
                  /\ Return(code)
                  /\ UNCHANGED <<cmd_idx, stdout, error>>
             ELSE /\ cmd_idx' = cmd_idx + 1
                  /\ UNCHANGED <<pc, outputs>>
    /\ UNCHANGED <<argv, document, should_list, request, got, config, loading, req_idx, task>>

(***************************************************************************)
(* The inputs.                                                              *)
(***************************************************************************)
\* The task names of a document, in the order of its mapping, and a name no
\* document defines.
TaskOrder == << <<"A">>, <<"B">>, <<"C">>, <<"D">> >>
TaskNames == {TaskOrder[i] : i \in 1..Len(TaskOrder)}
Undefined == <<"N">>
Refs == TaskNames \cup {Undefined}

\* The commands of the task named t.
Cmd1(t) ==
    CASE t = <<"A">> -> <<"a">>
      [] t = <<"B">> -> <<"b">>
      [] t = <<"C">> -> <<"c">>
      [] t = <<"D">> -> <<"d">>
Cmd2(t) == Cmd1(t) \o <<"2">>

\* The "deps" of one task: none, one or two.
DepLists == {<<>>} \cup {<<x>> : x \in Refs} \cup {<<x, y>> : x \in Refs, y \in Refs}
DepsUpTo(n) == {d \in DepLists : Len(d) <= n}
RawDeps(deps) == RList([i \in 1..Len(deps) |-> RStr(deps[i])])

\* The ways a document writes its tasks: a string or a table with deps then
\* cmd; a list or a table with cmd then deps; tables with one key.
Styles == {"deps-cmd", "cmd-deps", "one-key"}
\* Most references in a document that is not written deps then cmd.
MaxStyledRefs == 2
RawTask(style, t, deps) ==
    CASE style = "deps-cmd" ->
            IF deps = <<>>
            THEN RStr(Cmd1(t))
            ELSE RDict(<<KV("deps", RawDeps(deps)), KV("cmd", RStr(Cmd1(t)))>>)
      [] style = "cmd-deps" ->
            IF deps = <<>>
            THEN RList(<<RStr(Cmd1(t)), RStr(Cmd2(t))>>)
            ELSE RDict(<<KV("cmd", RList(<<RStr(Cmd1(t)), RStr(Cmd2(t))>>)),
                         KV("deps", RawDeps(deps))>>)
      [] style = "one-key" ->
            IF deps = <<>>
            THEN RDict(<<KV("cmd", RList(<<RStr(Cmd1(t))>>))>>)
            ELSE RDict(<<KV("deps", RawDeps(deps))>>)

RawTasks(style, dA, dB, dC, dD) ==
    <<KV(<<"A">>, RawTask(style, <<"A">>, dA)), KV(<<"B">>, RawTask(style, <<"B">>, dB)),
      KV(<<"C">>, RawTask(style, <<"C">>, dC)), KV(<<"D">>, RawTask(style, <<"D">>, dD))>>


\* Diamonds: D depends on B and C, which depend on one task each.
InitDiamond ==
    \E dB \in DepsUpTo(1) \ {<<>>}, dC \in DepsUpTo(1) \ {<<>>} :
    \E dD \in DepLists \ DepsUpTo(1) :
       Start(Document("ok", RawTasks("deps-cmd", <<>>, dB, dC, dD), <<>>),
             FALSE, Request(<< <<"D">> >>, <<>>, TRUE), NoEnviron, NoFiles)

\* Task graphs: every document of four tasks with at most MaxRefs
\* references, its last task requested under --dry-run.
InitGraph ==
    \E style \in Styles :
      LET n == IF style = "deps-cmd" THEN MaxRefs ELSE MaxStyledRefs
      IN \E dA \in DepsUpTo(n) :
         \E dB \in DepsUpTo(n - Len(dA)) :
         \E dC \in DepsUpTo(n - Len(dA) - Len(dB)) :
         \E dD \in DepsUpTo(n - Len(dA) - Len(dB) - Len(dC)) :
            Start(Document("ok", RawTasks(style, dA, dB, dC, dD), <<>>),
                  FALSE, Request(<< <<"D">> >>, <<>>, TRUE), NoEnviron, NoFiles)

\* Definitions that do not parse, and the emptiest ones that do.
BadShapes ==
    {RStr(<<>>), RInt, RBool(TRUE),
     RList(<<RStr(<<"x">>), RInt>>), RList(<<RStr(<<"x">>), RStr(<<>>)>>),
     RList(<<RStr(<<>>), RInt>>),
     RDict(<<KV("command", RStr(<<"x">>))>>),
     RDict(<<KV("cmd", RStr(<<"x">>)), KV("dependencies", RList(<<>>))>>),
     RDict(<<KV("cmd", RInt)>>), RDict(<<KV("cmd", RStr(<<>>))>>),
     RDict(<<KV("cmd", RList(<<RStr(<<"x">>), RInt>>))>>),
     RDict(<<KV("cmd", RList(<<RStr(<<>>)>>))>>),
     RDict(<<KV("deps", RStr(<<"A">>))>>),
     RDict(<<KV("deps", RList(<<RStr(<<"A">>), RInt>>))>>)}
EdgeShapes ==
    {RList(<<>>), RDict(<<>>), RDict(<<KV("cmd", RList(<<>>))>>),
     RDict(<<KV("deps", RList(<<>>))>>)}
\* What the other tasks of such a document are: a command, a reference to
\* an undefined task, a reference to itself.
PlainShapes(t) ==
    {RStr(Cmd1(t)), RDict(<<KV("deps", RawDeps(<<Undefined>>))>>),
     RDict(<<KV("deps", RawDeps(<<t>>))>>)}

\* Malformed documents: three tasks, one of them of a bad or edge shape.
InitShapes ==
    \E odd \in BadShapes \cup EdgeShapes :
    \E p \in 1..3 :
    \E s1 \in PlainShapes(<<"A">>), s2 \in PlainShapes(<<"B">>), s3 \in PlainShapes(<<"C">>) :
       Start(Document("ok",
                      <<KV(<<"A">>, IF p = 1 THEN odd ELSE s1),
                        KV(<<"B">>, IF p = 2 THEN odd ELSE s2),
                        KV(<<"C">>, IF p = 3 THEN odd ELSE s3)>>,
                      <<>>),
             FALSE, Request(<< <<"A">> >>, <<>>, TRUE), NoEnviron, NoFiles)

\* Tasks with placeholders: two variables and a repeated one in one step,
\* a variable that no document defines, a dependency.
ExecTasks ==
    <<KV(<<"A">>, RStr(<<"x", Placeholder("foo")>>)),
      KV(<<"B">>, RList(<<RStr(<<Placeholder("foo"), Placeholder("bar"), Placeholder("foo")>>),
                          RStr(<<"y">>)>>)),
      KV(<<"C">>, RDict(<<KV("deps", RawDeps(<< <<"A">> >>)),
                          KV("cmd", RStr(<<Placeholder("baz"), "z">>))>>))>>
\* The same, with a task that depends on itself.
CyclicTasks == Append(ExecTasks, KV(<<"D">>, RDict(<<KV("deps", RawDeps(<< <<"D">> >>))>>)))

\* The definitions of the variable foo and of the variable bar.
FooDefinitions ==
    {RStr(<<"d">>),
     RDict(<<>>),
     RDict(<<KV("env", RStr(<<"E">>)), KV("file", RStr(<<"F">>)), KV("default", RStr(<<"d">>))>>),
     RDict(<<KV("env", RStr(<<"E">>)), KV("secret", RBool(TRUE))>>),
     RDict(<<KV("file", RStr(<<"F">>)), KV("secret", RBool(TRUE)), KV("default", RStr(<<"d">>))>>)}
BarDefinitions == {RStr(<<"b">>), RDict(<<>>)}

\* os.environ and the files when run() is called: E set or not, F there or not.
Environ(v) == [e \in {<<"E">>} |-> v]
File(v) == [f \in {<<"F">>} |-> v]
Worlds ==
    {<<Environ(None), File(None)>>,
     <<Environ(None), File(Some(<<"f", "f">>))>>,
     <<Environ(Some(<<"e">>)), File(Some(<<"f", "f">>))>>}

\* The --var overrides of a request.
Overrides ==
    {<<>>,
     <<KV("foo", <<"o">>)>>,
     <<KV("foo", <<"o">>), KV("bar", <<"p", "q">>)>>,
     <<KV("baz", <<"o">>)>>,
     <<KV("foo", <<Placeholder("bar")>>)>>}
RequestNames == {<<"A">>, <<"B">>, <<"C">>, Undefined}
RECURSIVE SeqsUpTo(_, _)
\* The sequences over S of length 1..n.
SeqsUpTo(S, n) ==
    IF n = 0 THEN {}
    ELSE {<<x>> : x \in S} \cup {Append(q, x) : q \in SeqsUpTo(S, n - 1), x \in S}
\* Under --dry-run: those of at most one variable that is defined.
DryOverrides == {o \in Overrides : ~Has(o, "baz") /\ Len(o) <= 1}
Requests ==
    {Request(names, overrides, FALSE) :
        names \in SeqsUpTo(RequestNames, MaxRequest), overrides \in Overrides}
    \cup {Request(names, overrides, TRUE) :
        names \in SeqsUpTo(RequestNames, MaxRequest), overrides \in DryOverrides}

\* Requests: the tasks with placeholders, each definition of the
\* variables, each environment, each request of at most MaxRequest tasks.
InitExec ==
    \E foo \in FooDefinitions, bar \in BarDefinitions :
    \E world \in Worlds :
    \E req \in Requests :
       Start(Document("ok", ExecTasks, <<KV("foo", foo), KV("bar", bar)>>),
             FALSE, req, world[1], world[2])

\* Each request of a document with a task that depends on itself.
InitCyclic ==
    \E req \in Requests :
       Start(Document("ok", CyclicTasks, <<KV("foo", RStr(<<"d">>)), KV("bar", RStr(<<"b">>))>>),
             FALSE, req, NoEnviron, NoFiles)

\* Requests that name tasks that the document does not define: N, and D.
InitUnknown ==
    \E names \in SeqsUpTo({<<"A">>, Undefined, <<"D">>}, MaxRequest) :
    \E dry_run \in BOOLEAN :
       Start(Document("ok", ExecTasks, <<KV("foo", RStr(<<"d">>)), KV("bar", RStr(<<"b">>))>>),
             FALSE, Request(names, <<>>, dry_run), NoEnviron, NoFiles)

\* Tasks whose every command reads the variable foo, run while the commands
\* change the environment or the files: each definition of foo, each
\* environment, each request of at most MaxRequest of these tasks.
WorldTasks ==
    <<KV(<<"A">>, RList(<<RStr(<<Placeholder("foo")>>), RStr(<<"w", Placeholder("foo")>>)>>)),
      KV(<<"B">>, RStr(<<"v", Placeholder("foo")>>))>>
InitWorld ==
    \E foo \in FooDefinitions :
    \E world \in Worlds :
    \E names \in SeqsUpTo({<<"A">>, <<"B">>}, MaxRequest) :
       Start(Document("ok", WorldTasks, <<KV("foo", foo)>>),
             FALSE, Request(names, <<>>, FALSE), world[1], world[2])

\* Definitions of a variable that do not parse (no string and no table, a
\* table with another key, a table whose file is no string), and some that do.
VariableShapes ==
    {RStr(<<"d">>), RInt, RList(<<>>),
     RDict(<<KV("value", RStr(<<"d">>))>>),
     RDict(<<KV("default", RStr(<<"d">>)), KV("secret", RBool(TRUE)), KV("values", RInt)>>),
     RDict(<<KV("file", RInt)>>),
     RDict(<<KV("env", RStr(<<"E">>)), KV("secret", RBool(TRUE))>>)}

\* Documents that may fail to load in more than one way: two tasks, each
\* of a bad shape, a command, or a reference (to the other task, to itself,
\* to an undefined task), and no variable or two variables of any shape.
InitInvalid ==
    \E sA \in BadShapes \cup PlainShapes(<<"A">>)
                 \cup {RDict(<<KV("deps", RawDeps(<< <<"B">> >>))>>)} :
    \E sB \in BadShapes \cup PlainShapes(<<"B">>)
                 \cup {RDict(<<KV("deps", RawDeps(<< <<"A">> >>))>>)} :
    \E vs \in {<<>>} \cup {<<KV("foo", foo), KV("bar", bar)>> :
                              foo \in VariableShapes, bar \in {RStr(<<"b">>), RBool(TRUE)}} :
       Start(Document("ok", <<KV(<<"A">>, sA), KV(<<"B">>, sB)>>, vs),
             FALSE, Request(<< <<"A">> >>, <<>>, TRUE), NoEnviron, NoFiles)

\* --list, a file that is not there, a file that does not decode.
InitOther ==
    \E source \in {"ok", "missing", "undecodable"} :
    \E list \in BOOLEAN :
       Start(Document(source, ExecTasks, <<KV("foo", RStr(<<"d">>))>>),
             list, Request(IF list THEN <<>> ELSE << <<"A">> >>, <<>>, FALSE),
             NoEnviron, NoFiles)

Init ==
    InitGraph \/ InitDiamond \/ InitShapes \/ InitExec \/ InitCyclic \/ InitUnknown
        \/ InitInvalid \/ InitWorld \/ InitOther

Next ==
    \/ parse_pyproject_file
    \/ parse_tasks
    \/ _resolve_all_tasks
    \/ resolve_command
    \/ resolve_reference
    \/ resolve_return
    \/ parse_variables
    \/ list_tasks
    \/ execute_check
    \/ execute_get_task
    \/ execute_next_task
    \/ execute_write
    \/ execute_run

Spec == Init /\ [][Next]_vars

\* parse_tasks on its own: the file is read, its tasks are parsed and
\* resolved.  The program is sequential: a step that can be taken is taken.
NextLoad ==
    \/ parse_pyproject_file
    \/ parse_tasks
    \/ _resolve_all_tasks
    \/ resolve_command
    \/ resolve_reference
    \/ resolve_return

SpecLoad == Init /\ [][NextLoad]_vars /\ WF_vars(NextLoad)

(***************************************************************************)
(* Variable.get on its own: the variables of parse_variables(values) are    *)
(* called while the environment and the files change between the calls.     *)
(***************************************************************************)
\* The subsequences of a sequence of pairs: a table with some of the keys.
RECURSIVE SubDicts(_)
SubDicts(kvs) ==
    IF kvs = <<>> THEN {<<>>}
    ELSE LET rest == SubDicts(Tail(kvs))
         IN rest \cup {<<Head(kvs)>> \o d : d \in rest}
AllKeys ==
    <<KV("default", RStr(<<"d">>)), KV("env", RStr(<<"E">>)), KV("file", RStr(<<"F">>)),
      KV("secret", RBool(TRUE))>>
\* A string, or a table with any of the four keys.
VariableDefinitions == {RStr(<<"d", "d">>)} \cup {RDict(d) : d \in SubDicts(AllKeys)}
\* The values an environment variable, a file or an override may have.
Values == {<<>>, <<"v">>, <<"w", "w">>}

InitVar ==
    /\ argv = <<>>
    /\ \E raw \in VariableDefinitions :
       StartAt(Document("ok", <<>>, <<KV("foo", raw)>>), FALSE, Request(<<>>, <<>>, FALSE),
               NoEnviron, NoFiles, "variables",
               ParseVariables(<<KV("foo", raw)>>).value)

\* variable_get of a Variable that keeps the value its getter gave to the
\* call before.
variable_getCached ==
    /\ pc = "variables"
    /\ \E i \in 1..Len(variables) :
       \E override \in {None} \cup {Some(v) : v \in Values} :
       \E dry_run \in BOOLEAN :
          LET cached == got.called /\ got.override.none /\ override.none /\ got.value.ok
          IN got' = Call(variables[i].key, override, dry_run, environ, files,
                         IF cached THEN got.value
                         ELSE getter(variables[i].value, override, environ, files),
                         IF cached THEN got.result
                         ELSE VariableGet(variables[i].value, override, dry_run, environ, files),
                         IF got.called /\ got.override = override
                         THEN Some(got.value) ELSE None)
    /\ UNCHANGED <<argv, document, should_list, request, environ, files, pc, config,
                   loading,
                   req_idx, task, cmd_idx, executed, codes, changes, outputs>>

\* variable.get(override, dry_run)
variable_get ==
    /\ pc = "variables"
    /\ \E i \in 1..Len(variables) :
       \E override \in {None} \cup {Some(v) : v \in Values} :
       \E dry_run \in BOOLEAN :
          got' = Call(variables[i].key, override, dry_run, environ, files,
                      getter(variables[i].value, override, environ, files),
                      VariableGet(variables[i].value, override, dry_run, environ, files),
                      IF got.called /\ got.override = override
                      THEN Some(got.value) ELSE None)
    /\ UNCHANGED <<argv, document, should_list, request, environ, files, pc, config,
                   loading,
                   req_idx, task, cmd_idx, executed, codes, changes, outputs>>

\* os.environ[name] = value, or del os.environ[name]
set_environ ==
    /\ pc = "variables"
    /\ \E name \in DOMAIN environ :
       \E value \in {None} \cup {Some(v) : v \in Values} :
          environ' = [environ EXCEPT ![name] = value]
    /\ UNCHANGED <<argv, document, should_list, request, got, files, pc, config, loading,
                   req_idx, task, cmd_idx, executed, codes, changes, outputs>>

\* A file is written or removed.
write_file ==
    /\ pc = "variables"
    /\ \E name \in DOMAIN files :
       \E value \in {None} \cup {Some(v) : v \in Values} :
          files' = [files EXCEPT ![name] = value]
    /\ UNCHANGED <<inputs, pc, config, loading, req_idx, task, cmd_idx, executed, codes,
                   changes, outputs>>

NextVar == variable_get \/ set_environ \/ write_file

SpecVar == InitVar /\ [][NextVar]_vars

(***************************************************************************)
(* parse_args on its own.  An argument is a str whose tokens are characters *)
(* and, whole, the texts "--var.", "--", "--dry-run", "--list", "--help".   *)
(***************************************************************************)
\* Most arguments on one command line.
MaxArgs == 3

\* The flags that the parser of create_parser knows.  --file is left out:
\* the file is the document.
KnownFlags == {<<"--dry-run">>, <<"--list">>, <<"--help">>}
IsRemaining(arg) == arg \notin KnownFlags
\* arg.startswith("--var.")
StartsWithVar(arg) == arg # <<>> /\ Head(arg) = "--var."
\* arg.startswith("--")
StartsWithDashes(arg) ==
    arg # <<>> /\ Head(arg) \in {"--", "--var.", "--dry-run", "--list", "--help"}
\* "=" in arg
HasEquals(arg) == \E i \in 1..Len(arg) : arg[i] = "="
\* arg[6:].split("=", 1)
SplitEquals(arg) ==
    LET rest == Tail(arg)
        at == Min({i \in 1..Len(rest) : rest[i] = "="})
    IN [name |-> SubSeq(rest, 1, at - 1), value |-> SubSeq(rest, at + 1, Len(rest))]
\* f"--var.{pending_variable}"
VarArg(name) == <<"--var.">> \o name
\* d[k] = v
SetItem(d, k, v) ==
    IF Has(d, k)
    THEN [i \in 1..Len(d) |-> IF d[i].key = k THEN KV(k, v) ELSE d[i]]
    ELSE Append(d, KV(k, v))
\* if pending_variable: neither None nor the empty str.
IsPending(pending_variable) == ~pending_variable.none /\ pending_variable.value # <<>>

Scanned(names, overrides, unrecognized_arguments, pending_variable) ==
    [tasks |-> names, variables |-> overrides,
     unrecognized_arguments |-> unrecognized_arguments,
     pending_variable |-> pending_variable]

RECURSIVE ScanFrom(_, _, _, _, _)
\* The loop of parse_args over the arguments that the parser did not take.
ScanFrom(remaining, names, overrides, unrecognized_arguments, pending_variable) ==
    IF remaining = <<>>
    THEN Scanned(names, overrides, unrecognized_arguments, pending_variable)
    ELSE LET arg == Head(remaining)
             rest == Tail(remaining)
         IN IF StartsWithVar(arg)
            THEN IF IsPending(pending_variable)
                 THEN ScanFrom(rest, names, overrides,
                               unrecognized_arguments
                                   \o <<VarArg(pending_variable.value), arg>>,
                               None)
                 ELSE IF HasEquals(arg)
                      THEN ScanFrom(rest, names,
                                    SetItem(overrides, SplitEquals(arg).name,
                                            SplitEquals(arg).value),
                                    unrecognized_arguments, pending_variable)
                      ELSE ScanFrom(rest, names, overrides, unrecognized_arguments,
                                    Some(Tail(arg)))
            ELSE IF IsPending(pending_variable)
                 THEN ScanFrom(rest, names, SetItem(overrides, pending_variable.value, arg),
                               unrecognized_arguments, None)
                 ELSE IF StartsWithDashes(arg)
                      THEN ScanFrom(rest, names, overrides,
                                    Append(unrecognized_arguments, arg), pending_variable)
                      ELSE ScanFrom(rest, Append(names, arg), overrides,
                                    unrecognized_arguments, pending_variable)

\* raise Exit(return_code, msg), and return (ns.file, ns.list, Request(...))
Exit(code, msg, unrecognized_arguments) ==
    [ok |-> FALSE, return_code |-> code,
     msg |-> Message(msg, NoError, unrecognized_arguments, 0),
     should_list |-> FALSE, request |-> Request(<<>>, <<>>, FALSE)]
Options(should, req) ==
    [ok |-> TRUE, return_code |-> 0, msg |-> Message("", NoError, <<>>, 0),
     should_list |-> should, request |-> req]

parse_args(args) ==
    LET ns == [help |-> \E i \in 1..Len(args) : args[i] = <<"--help">>,
               list |-> \E i \in 1..Len(args) : args[i] = <<"--list">>,
               dry_run |-> \E i \in 1..Len(args) : args[i] = <<"--dry-run">>]
        scanned == ScanFrom(SelectSeq(args, IsRemaining), <<>>, <<>>, <<>>, None)
        unrecognized_arguments ==
            IF IsPending(scanned.pending_variable)
            THEN Append(scanned.unrecognized_arguments,
                        VarArg(scanned.pending_variable.value))
            ELSE scanned.unrecognized_arguments
    IN IF unrecognized_arguments # <<>>
       THEN Exit(1, "task: error: unrecognized arguments: {unrecognized_arguments}",
                 unrecognized_arguments)
       ELSE IF ns.help
       THEN Exit(0, "{parser.format_help()}", <<>>)
       ELSE IF scanned.tasks = <<>> /\ ~ns.list
       THEN Exit(1, "task: error: at least one task name is required", <<>>)
       ELSE IF ns.list /\ (ns.dry_run \/ scanned.tasks # <<>> \/ scanned.variables # <<>>)
       THEN Exit(1, "task: error: --list option cannot be used together with tasks and variables arguments or --dry-run option", <<>>)
       ELSE Options(ns.list, Request(scanned.tasks, scanned.variables, ns.dry_run))

\* The arguments of a command line: task names, a known and an unknown
\* option, overrides in the two forms, with a name and without.
Args ==
    {<<"A">>, <<"v">>, <<"--dry-run">>, <<"--list">>, <<"--help">>, <<"--", "x">>,
     <<"--var.", "a">>, <<"--var.", "a", "=", "v">>, <<"--var.", "b">>,
     <<"--var.">>, <<"--var.", "=", "v">>}

InitArgs ==
    /\ argv \in SeqsUpTo(Args, MaxArgs)
    /\ StartAt(Document("ok", ExecTasks, <<>>), FALSE, Request(<<>>, <<>>, FALSE),
               NoEnviron, NoFiles, "parse_args", <<>>)

\* run(): parse_args(args); an Exit is written and its code returned.
run_parse_args ==
    /\ pc = "parse_args"
    /\ LET parsed == parse_args(argv)
       IN IF parsed.ok
          THEN /\ should_list' = parsed.should_list
               /\ request' = parsed.request
               /\ pc' = "parse_pyproject_file"
               /\ UNCHANGED outputs
          ELSE /\ IF parsed.return_code > 0
                  THEN stderr' = Append(stderr, parsed.msg) /\ stdout' = stdout
                  ELSE stdout' = Append(stdout, <<parsed.msg.text>>) /\ stderr' = stderr
               /\ Return(parsed.return_code)
               /\ UNCHANGED <<should_list, request, error>>
    /\ UNCHANGED <<argv, document, environ, files, got, config, loading, executing>>

NextArgs == run_parse_args

SpecArgs == InitArgs /\ [][NextArgs]_vars

(***************************************************************************)
(* The claims.                                                              *)
(***************************************************************************)
\* The parsed definition of a task, and the task names in mapping order.
Def(t) == Get(tasks_definitions, t)
Defined(t) == Has(tasks_definitions, t)
NamesOf(d) == [i \in 1..Len(d) |-> d[i].key]
\* The calls of _resolve_task in progress, outermost first.
Chain == [i \in 1..Len(stack) |-> stack[i].task_name]
\* _resolve_task is at a reference to the task r.
AtReference(r) ==
    /\ pc = "_resolve_all_tasks"
    /\ stack # <<>>
    /\ Top.idx <= Len(TopSteps)
    /\ TopSteps[Top.idx].ref
    /\ TopSteps[Top.idx].name = r
\* The i-th step of the definition of t is a reference to r.
RefAt(t, i, r) == Defined(t) /\ Len(Def(t)) >= i /\ Def(t)[i] = _TaskReference(r)
\* run() has a Config.
AfterLoad == {"list", "execute", "tasks", "commands"}
AfterResolve == AfterLoad \cup {"parse_variables"}
\* Loading failed: run() reported err, returned 1 and ran nothing.
LoadFailedWith(err) ==
    /\ pc' = "returned"
    /\ return_code' = Some(1)
    /\ error' = err
    /\ stderr' = <<ConfigMessage(err)>>
    /\ executed' = <<>>
    /\ stdout' = <<>>

RECURSIVE SumSeq(_)
SumSeq(ns) == IF ns = <<>> THEN 0 ELSE Head(ns) + SumSeq(Tail(ns))
Count(x, xs) == Cardinality({i \in 1..Len(xs) : xs[i] = x})

RECURSIVE Expand(_, _)
\* expand(t): the concatenation, over the steps of t, of the commands of a
\* Command and of expand(R) for a Reference to R.
Expand(t, depth) ==
    IF depth = 0 \/ ~Defined(t)
    THEN <<>>
    ELSE Concat([i \in 1..Len(Def(t)) |->
                    IF Def(t)[i].ref
                    THEN Expand(Def(t)[i].name, depth - 1)
                    ELSE Def(t)[i].steps])

\* C1: the resolved command list of every task equals the depth-first,
\* order-preserving expansion of its steps, and a graph that has loaded
\* has one resolved task per definition, in mapping order.
C1_DepthFirstExpansion ==
    /\ \A i \in 1..Len(tasks) :
          tasks[i].value = Expand(tasks[i].key, Len(tasks_definitions))
    /\ pc \in AfterResolve => NamesOf(tasks) = NamesOf(tasks_definitions)

\* A loaded task of two different references followed by a command.
C1_Witness ==
    /\ pc = "execute"
    /\ \E i \in 1..Len(tasks) :
          LET d == Def(tasks[i].key)
          IN /\ Len(d) = 3
             /\ d[1].ref /\ d[2].ref /\ ~d[3].ref
             /\ d[1].name # d[2].name
             /\ Len(tasks[i].value) >= 4

\* C2: when resolution reaches a task name that is already on the chain of
\* calls in progress, loading fails with the circular-dependency error of
\* the innermost caller and the name re-entered, wrapped in the error of
\* the task being resolved at top level, and no Config is made.
C2_CircularPair ==
    [][\A r \in Refs :
          (AtReference(r) /\ \E i \in 1..Len(Chain) : Chain[i] = r)
          => LoadFailedWith(InvalidTaskError(Chain[1],
                 CircularDependencyError(Chain[Len(Chain)], r)))]_vars

\* A cycle of three tasks is closed: the error names two of them.
C2_Witness ==
    /\ pc = "returned"
    /\ error.class = "InvalidTaskError"
    /\ error.reason.kind = "CircularDependencyError"
    /\ error.reason.a # error.reason.b
    /\ error.name = error.reason.b
    /\ \E t \in TaskNames \ {error.reason.a, error.reason.b} :
          /\ RefAt(error.reason.b, 1, t)
          /\ RefAt(t, 1, error.reason.a)

\* The names a raw task definition lists under "deps".
RawRefs(raw) ==
    IF raw.type = "dict" /\ Has(raw.items, "deps") /\ Get(raw.items, "deps").type = "list"
    THEN LET deps == Get(raw.items, "deps").items
         IN {deps[i].str : i \in {j \in 1..Len(deps) : deps[j].type = "str"}}
    ELSE {}
\* The tasks of the document whose deps list holds a name the mapping lacks.
Dangling ==
    {i \in 1..Len(document.tasks) :
        \E n \in RawRefs(document.tasks[i].value) : ~Has(document.tasks, n)}

\* C3, as claimed: every document in which the deps of some task name an
\* absent task fails to load with an unknown-reference error that names the
\* absent task and a task whose deps list holds it.
C3_Original ==
    (pc = "returned" /\ document.source = "ok" /\ Dangling # {})
    => /\ error.class = "InvalidTaskError"
       /\ error.reason.kind = "UnknownTaskReferenceError"
       /\ ~Has(document.tasks, error.reason.a)
       /\ \E i \in Dangling :
             /\ document.tasks[i].key = error.reason.b
             /\ error.reason.a \in RawRefs(document.tasks[i].value)

\* C3, amended: when resolution reaches a reference to a name the mapping
\* lacks, loading fails with the unknown-reference error of that name and of
\* the innermost caller, the task whose deps list holds it, wrapped in the
\* error of the task being resolved at top level; and a document with such a
\* reference never gets a Config.
C3_UnknownReference ==
    /\ [](Dangling # {} => pc \notin AfterLoad)
    /\ [][\A r \in Refs :
             (AtReference(r) /\ ~Defined(r) /\ \A i \in 1..Len(Chain) : Chain[i] # r)
             => LoadFailedWith(InvalidTaskError(Chain[1],
                    UnknownTaskReferenceError(r, Chain[Len(Chain)])))]_vars

\* An absent task is referenced by a task other than the one being resolved
\* at top level.
C3_Witness ==
    /\ pc = "returned"
    /\ error.class = "InvalidTaskError"
    /\ error.reason.kind = "UnknownTaskReferenceError"
    /\ error.reason.a = Undefined
    /\ error.reason.b # error.name
    /\ Undefined \notin RawRefs(Get(document.tasks, error.name))

RECURSIVE PathCount(_, _, _)
\* The number of ways the resolution of t reaches the task x.
PathCount(t, x, depth) ==
    IF depth = 0 \/ ~Defined(t)
    THEN 0
    ELSE (IF t = x THEN 1 ELSE 0)
         + SumSeq([i \in 1..Len(Def(t)) |->
                      IF Def(t)[i].ref THEN PathCount(Def(t)[i].name, x, depth - 1) ELSE 0])
\* The commands of the definition of x itself.
Own(x) == Concat([i \in 1..Len(Def(x)) |-> IF Def(x)[i].ref THEN <<>> ELSE Def(x)[i].steps])
\* Some task reaches itself through its references.
Cyclic ==
    \E t \in Keys(tasks_definitions) :
       \E i \in 1..Len(Def(t)) :
          Def(t)[i].ref /\ PathCount(Def(t)[i].name, t, Len(tasks_definitions)) > 0

\* C4: a circular dependency is reported only for a graph with a cycle, and
\* when every task has been resolved, a resolved task holds each command of
\* each task once per way its resolution reaches that task: nothing is
\* removed as a duplicate.
C4_Diamond ==
    /\ error.reason.kind = "CircularDependencyError" => Cyclic
    /\ pc = "parse_variables" =>
       \A i \in 1..Len(tasks) :
          \A j \in 1..Len(tasks_definitions) :
             LET x == tasks_definitions[j].key
                 own == Own(x)
             IN \A k \in 1..Len(own) :
                   Count(own[k], tasks[i].value)
                   = SumSeq([m \in 1..Len(tasks_definitions) |->
                          PathCount(tasks[i].key, tasks_definitions[m].key,
                                    Len(tasks_definitions))
                          * Count(own[k], Own(tasks_definitions[m].key))])

\* D depends on B and C, which both depend on A, and the graph has loaded:
\* the command of A is twice in D.
C4_Witness ==
    /\ pc = "parse_variables"
    /\ RefAt(<<"D">>, 1, <<"B">>)
    /\ RefAt(<<"D">>, 2, <<"C">>)
    /\ RefAt(<<"B">>, 1, <<"A">>)
    /\ RefAt(<<"C">>, 1, <<"A">>)
    /\ Count(Cmd1(<<"A">>), Get(tasks, <<"D">>)) = 2

RECURSIVE RawReaches(_, _, _)
\* The deps lists of the document lead from the task t to the task x.
RawReaches(t, x, depth) ==
    /\ depth > 0
    /\ Has(document.tasks, t)
    /\ \E r \in RawRefs(Get(document.tasks, t)) : r = x \/ RawReaches(r, x, depth - 1)
\* The document has a task that does not parse, a task whose deps list names
\* an absent task, or a task that its deps lists lead back to.
Malformed ==
    /\ document.source = "ok"
    /\ \/ \E i \in 1..Len(document.tasks) : document.tasks[i].value \in BadShapes
       \/ Dangling # {}
       \/ \E i \in 1..Len(document.tasks) :
             RawReaches(document.tasks[i].key, document.tasks[i].key, Len(document.tasks))

\* C5: every task of the document is resolved when the configuration is
\* loaded, so that one malformed, dangling or circular task, requested or
\* not, makes run() write one message to stderr and return 1 without a
\* command being executed or written.
C5_EagerResolution ==
    (Malformed /\ pc \in AfterLoad \cup {"returned", "raised"})
    => /\ pc = "returned"
       /\ return_code = Some(1)
       /\ error.class = "InvalidTaskError"
       /\ stderr = <<ConfigMessage(error)>>
       /\ executed = <<>>
       /\ stdout = <<>>

\* The request names the task A alone, which is well formed and which does
\* not depend on the task D; D depends on itself, and run() has returned 1.
C5_Witness ==
    /\ pc = "returned"
    /\ ~request.dry_run
    /\ request.tasks = << <<"A">> >>
    /\ document.tasks = CyclicTasks
    /\ return_code = Some(1)
    /\ error = InvalidTaskError(<<"D">>, CircularDependencyError(<<"D">>, <<"D">>))

\* The raw definition of a variable of the document gives it a value when
\* the environment and the files are env and fs.
RawValued(name, env, fs) ==
    /\ Has(document.variables, name)
    /\ LET raw == Get(document.variables, name)
       IN \/ raw.type = "str"
          \/ /\ raw.type = "dict"
             /\ \/ Has(raw.items, "env") /\ ~env[Get(raw.items, "env").str].none
                \/ Has(raw.items, "file") /\ ~fs[Get(raw.items, "file").str].none
                \/ Has(raw.items, "default")
\* The names of the placeholders of the steps of a task of the Config.
NamesIn(steps) ==
    {NameOf(steps[i][k]) : <<i, k>> \in
        {ik \in (1..Len(steps)) \X (1..MaxRefs) :
            ik[2] <= Len(steps[ik[1]]) /\ IsPlaceholder(steps[ik[1]][ik[2]])}}
\* The task of the Config that the request names at position i.
Requested(i) == Get(tasks, request.tasks[i])
\* The commands executed or written so far.
Ran == IF request.dry_run THEN stdout ELSE executed

\* C6, as claimed: when a variable has no value, the error is raised before
\* any command of any requested task is executed.
C6_Original == error.class = "ValueError" => executed = <<>>

\* C6, amended: an error of the configuration file is reported before any
\* command; a variable without a value is found when the task that refers to
\* it is fetched, after each command of the tasks requested before it has run,
\* and before any command of that task: a task whose commands start has a
\* value for every variable of the configuration that its steps refer to.
C6_ErrorsBeforeCommands ==
    /\ error.class \in ConfigErrors => executed = <<>> /\ stdout = <<>>
    /\ error.class = "ValueError" =>
          /\ pc = "raised"
          /\ error.name[1] \in NamesIn(Requested(req_idx))
          /\ ~Has(request.variables, error.name[1])
          /\ ~RawValued(error.name[1], environ, files)
          /\ Len(Ran) = SumSeq([j \in 1..(req_idx - 1) |-> Len(Requested(j))])
    /\ (pc = "commands" /\ cmd_idx = 1) =>
          \A name \in NamesIn(Requested(req_idx)) :
             Has(document.variables, name) =>
                Has(request.variables, name) \/ RawValued(name, environ, files)

\* The command of a first task has been executed, and the second task
\* refers to a variable that has no value.
C6_Witness ==
    /\ pc = "raised"
    /\ error.class = "ValueError"
    /\ req_idx = 2
    /\ executed # <<>>

\* The raw definition of the variable that was called.
RawCalled == Get(document.variables, got.name)
\* What the raw definition gives under a key, a string definition being its
\* own default.
RawField(key) ==
    IF RawCalled.type = "str"
    THEN IF key = "default" THEN Some(RawCalled) ELSE None
    ELSE RawGet(RawCalled.items, key)
\* The value of the environment variable and the contents of the file that
\* the raw definition names, when the call was made.
EnvValue == IF RawField("env").none THEN None ELSE got.environ[RawField("env").value.str]
FileValue == IF RawField("file").none THEN None ELSE got.files[RawField("file").value.str]
DefaultValue == IF RawField("default").none THEN None ELSE Some(RawField("default").value.str)

\* C7: the getter of a Variable gives the override if there is one, else the
\* value of the environment variable if it is set, even to the empty
\* string, else the contents of the file if it exists, else the default if
\* it is defined, else it raises the error that names the variable.
C7_Precedence ==
    got.called =>
       /\ ~got.override.none => got.value = Returned(RStr(got.override.value))
       /\ (got.override.none /\ ~EnvValue.none) => got.value = Returned(RStr(EnvValue.value))
       /\ (got.override.none /\ EnvValue.none /\ ~FileValue.none)
          => got.value = Returned(RStr(FileValue.value))
       /\ (got.override.none /\ EnvValue.none /\ FileValue.none /\ ~DefaultValue.none)
          => got.value = Returned(RStr(DefaultValue.value))
       /\ (got.override.none /\ EnvValue.none /\ FileValue.none /\ DefaultValue.none)
          => got.value = Threw("ValueError", got.name)

\* No override; the environment variable is set to the empty string, the
\* file exists with other contents and there is a default: the empty string
\* is the value.
C7_Witness ==
    /\ got.called
    /\ got.override.none
    /\ EnvValue = Some(<<>>)
    /\ FileValue = Some(<<"v">>)
    /\ DefaultValue = Some(<<"d">>)
    /\ got.value = Returned(RStr(<<>>))

\* The raw definition says that the variable is secret.
Secret == ~RawField("secret").none /\ RawField("secret").value.flag

\* C8: Variable.get gives what the getter gives, unless dry_run is set and
\* the variable is secret: then it gives as many stars as the value has
\* characters, and nothing else.
C8_Mask ==
    got.called =>
       IF got.value.ok /\ got.dry_run /\ Secret
       THEN /\ got.result.ok
            /\ StrLen(got.result.value.str) = StrLen(got.value.value.str)
            /\ \A i \in 1..Len(got.result.value.str) : got.result.value.str[i] = "*"
       ELSE got.result = got.value

\* A secret variable called under dry_run with an override of two
\* characters gives two stars.
C8_Witness ==
    /\ got.called
    /\ got.dry_run
    /\ Secret
    /\ got.override = Some(<<"w", "w">>)
    /\ got.value = Returned(RStr(<<"w", "w">>))
    /\ got.result = Returned(RStr(<<"*", "*">>))

\* The resolved value of a variable for the request.
ResolvedValue(name) ==
    VariableValue(variables, name, request.variables, environ, files).value.str
\* A step with each placeholder replaced by the resolved value of its
\* variable, the rest of the step as it is.
Substituted(step) ==
    Concat([k \in 1..Len(step) |->
               IF IsPlaceholder(step[k]) THEN ResolvedValue(NameOf(step[k])) ELSE <<step[k]>>])

\* C9: the task that get_task gives has the steps of the task of the
\* Config, as many and in the same order, each occurrence of each
\* placeholder replaced by the resolved value of its variable.
C9_AllReplaced ==
    (pc = "commands" /\ cmd_idx = 1) =>
       /\ Len(task) = Len(Requested(req_idx))
       /\ \A i \in 1..Len(task) : task[i] = Substituted(Requested(req_idx)[i])

\* The configuration defines the variable.
Configured(name) == Has(document.variables, name)

\* C10, as claimed: get_task never fails on a variable that the overrides
\* name, defined by the configuration or not.
C10_Original ==
    (pc = "raised" /\ error.class \in {"KeyError", "ValueError"})
    => ~Has(request.variables, error.name[1])

\* C10, amended: for a variable that the configuration defines and that the
\* overrides name, the value is the override, whatever the environment and
\* the files hold and whatever its definition, and get_task does not fail on
\* it; get_task raises KeyError on a placeholder of a variable that the
\* configuration does not define, with or without an override, so that a
\* task whose commands start refers to defined variables only.
C10_OverrideFirst ==
    /\ pc \in AfterLoad =>
          \A i \in 1..Len(request.variables) :
             LET name == request.variables[i].key
             IN Configured(name) =>
                   \A world \in Worlds \cup {<<environ, files>>} :
                      VariableValue(variables, name, request.variables, world[1], world[2])
                      = Returned(RStr(Get(request.variables, name)))
    /\ (pc = "raised" /\ error.class \in {"KeyError", "ValueError"})
       => /\ ~(Has(request.variables, error.name[1]) /\ Configured(error.name[1]))
          /\ error.class = "KeyError" <=> ~Configured(error.name[1])
    /\ pc = "commands" => \A name \in NamesIn(Requested(req_idx)) : Configured(name)

\* The override of foo is in the command of the task A although the
\* environment variable that foo names is set.
C10_Witness ==
    /\ pc = "commands"
    /\ cmd_idx = 1
    /\ request.tasks[req_idx] = <<"A">>
    /\ request.variables = <<KV("foo", <<"o">>)>>
    /\ RawValued("foo", environ, files)
    /\ ~environ[<<"E">>].none
    /\ Has(Get(document.variables, "foo").items, "env")
    /\ task = << <<"x", "o">> >>

\* get_task is about to be called for a task of which a step refers to a
\* variable that the configuration does not define and that has no override.
FetchesUndefined ==
    /\ pc = "tasks"
    /\ req_idx <= Len(request.tasks)
    /\ \E name \in NamesIn(Requested(req_idx)) :
          ~Configured(name) /\ ~Has(request.variables, name)
\* Every variable of the configuration that the task refers to has a value.
AllValued ==
    \A name \in NamesIn(Requested(req_idx)) :
       Configured(name) => Has(request.variables, name) \/ RawValued(name, environ, files)

\* C11, as claimed: get_task of such a task fails with the lookup error.
C11_Original == [][FetchesUndefined => error'.class = "KeyError"]_vars

\* C11, amended: get_task of such a task raises and gives no task, and no
\* command of the task is executed or written; the error is the lookup
\* error of a variable that is not defined, unless a variable of the
\* configuration that the task refers to has no value: then it may be the
\* value-not-defined error of that variable, met first.
C11_UndefinedVariable ==
    [][FetchesUndefined =>
          /\ pc' = "raised"
          /\ UNCHANGED <<task, executed, stdout, stderr, return_code>>
          /\ error'.class \in {"KeyError", "ValueError"}
          /\ error'.name[1] \in NamesIn(Requested(req_idx))
          /\ error'.class = "KeyError" => ~Configured(error'.name[1])
          /\ error'.class = "ValueError" =>
                Configured(error'.name[1]) /\ ~RawValued(error'.name[1], environ, files)
          /\ AllValued => error'.class = "KeyError"]_vars

\* The task C is fetched after the command of the task A has been executed;
\* its first step is substituted, its second refers to baz: KeyError, and
\* nothing of C is executed.
C11_Witness ==
    /\ pc = "raised"
    /\ error.class = "KeyError"
    /\ error.name = <<"baz">>
    /\ request.tasks = << <<"A">>, <<"C">> >>
    /\ req_idx = 2
    /\ ~request.dry_run
    /\ Len(executed) = 1

\* The document defines no task of that name.
IsMissing(task_name) == ~Has(document.tasks, task_name)
\* The requested names that the document does not define, in request order,
\* a name as many times as it is requested.
Missing == SelectSeq(request.tasks, IsMissing)
\* Service.execute has been called: the command line was parsed, the
\* configuration loaded, and --list not given.
Executing ==
    /\ document.source = "ok"
    /\ ~should_list
    /\ error.class \notin ConfigErrors
    /\ ParseVariables(document.variables).ok
    /\ pc \in {"tasks", "commands", "returned", "raised"}

\* C12: when a requested name is missing from the Config, execute writes
\* one message to the error output, with the missing names in request order,
\* in the singular for one missing name and in the plural for several;
\* it returns 1, and no command is executed or written, whatever the other
\* names and with or without dry_run.
C12_UnknownTasks ==
    (Executing /\ Missing # <<>>) =>
       /\ pc = "returned"
       /\ return_code = Some(1)
       /\ executed = <<>>
       /\ stdout = <<>>
       /\ Len(stderr) = 1
       /\ stderr[1].names = Missing
       /\ IF Len(Missing) = 1
          THEN stderr[1].text = "task: error: task do not exist: '{unknown_tasks[0]}'"
          ELSE stderr[1].text = "task: error: tasks do not exist: {unknown_tasks}"

\* N and D are requested and missing: one message names both, N first.
C12_Witness ==
    /\ pc = "returned"
    /\ request.tasks = <<Undefined, <<"D">> >>
    /\ Len(stderr) = 1
    /\ stderr[1].names = <<Undefined, <<"D">> >>
    /\ return_code = Some(1)

\* The number of steps of the tasks requested before position i.
StepsBefore(i) == SumSeq([j \in 1..(i - 1) |-> Len(Requested(j))])
\* The last n elements of a sequence.
LastOf(xs, n) == SubSeq(xs, Len(xs) - n + 1, Len(xs))
\* Every command that the executor was run with returned zero.
AllZero == \A k \in 1..Len(codes) : codes[k] = 0
\* Service.execute runs commands: no dry_run, and every requested name exists.
Running == Executing /\ ~request.dry_run /\ Missing = <<>>

Owner ==
    CHOOSE k \in 1..Len(request.tasks) :
       StepsBefore(k) < Len(executed) /\ Len(executed) <= StepsBefore(k + 1)
\* The executor has returned a code other than zero.
Failed == codes # <<>> /\ Last(codes) # 0

\* C14: when the executor returns a code other than zero, execute writes
\* one line to the error output, with the requested task that owns the
\* command and the code, and returns that code; the executor is not run
\* again, for no command of no task.
C14_FailFast ==
    /\ [](Failed =>
            /\ pc = "returned"
            /\ return_code = Some(Last(codes))
            /\ stderr = <<Message("task: error: task {task_name} failed with exit code {return_code}",
                                  NoError, <<request.tasks[Owner]>>, Last(codes))>>
            /\ \A k \in 1..(Len(codes) - 1) : codes[k] = 0)
    /\ [][Failed => UNCHANGED <<executed, codes, stdout, stderr, return_code>>]_vars

\* A and B are requested; the command of A returns 0, the first command of
\* B returns 2: execute returns 2, the second command of B is not executed.
C14_Witness ==
    /\ pc = "returned"
    /\ request.tasks = << <<"A">>, <<"B">> >>
    /\ codes = <<0, 2>>
    /\ Len(executed) = 2
    /\ return_code = Some(2)
    /\ stderr[1].names = << <<"B">> >>

\* Service.execute writes commands: dry_run, and every requested name exists.
Writing == Executing /\ request.dry_run /\ Missing = <<>>
\* What get_task gives for the task requested at position j.
Fetched(j) ==
    get_task(tasks, variables, request.tasks[j], request.variables, environ, files)

C16_ErrorsReported ==
    (error.class \in ConfigErrors \cup {"ValueError"} \/ (Executing /\ Missing # <<>>))
    => /\ pc = "returned"
       /\ return_code = Some(1)
       /\ Len(stderr) = 1

\* The Config has been built.
Loaded == pc \in {"list", "execute", "tasks", "commands"}

\* C17: once built, the Config does not change: whatever get_task and
\* Service.execute do, the tasks, their steps with the placeholders in them,
\* and the variables stay what loading made of the document.
C17_ReadOnly ==
    /\ [][Loaded => UNCHANGED <<tasks, variables>>]_vars
    /\ [](Executing =>
            /\ variables = ParseVariables(document.variables).value
            /\ NamesOf(tasks) = NamesOf(document.tasks)
            /\ \A i \in 1..Len(tasks) :
                  tasks[i].value = Expand(tasks[i].key, Len(tasks_definitions)))

\* The task B is requested twice with an override of foo: get_task has
\* given the substituted steps a second time, and the steps of B in the
\* Config still hold the placeholders.
C17_Witness ==
    /\ pc = "commands"
    /\ req_idx = 2
    /\ request.tasks = << <<"B">>, <<"B">> >>
    /\ request.variables = <<KV("foo", <<"o">>)>>
    /\ task[1] = <<"o", "b", "o">>
    /\ Get(tasks, <<"B">>)[1] = <<Placeholder("foo"), Placeholder("bar"), Placeholder("foo")>>

\* What the precedence rules give for the variable that was called, for an
\* override, an environment and files.
Expected(override, env, fs) ==
    LET e == IF RawField("env").none THEN None ELSE env[RawField("env").value.str]
        f == IF RawField("file").none THEN None ELSE fs[RawField("file").value.str]
    IN IF ~override.none THEN Returned(RStr(override.value))
       ELSE IF ~e.none THEN Returned(RStr(e.value))
       ELSE IF ~f.none THEN Returned(RStr(f.value))
       ELSE IF ~DefaultValue.none THEN Returned(RStr(DefaultValue.value))
       ELSE Threw("ValueError", got.name)

\* C18: a call of get gives what the precedence rules give for the
\* environment and the files as they are when the call is made, whatever a
\* call before gave: nothing is kept from one call to the next.
C18_NoCache ==
    /\ [](got.called => got.value = Expected(got.override, got.environ, got.files))
    /\ [][got' # got => got'.environ = environ /\ got'.files = files]_vars

\* A first call without override gave the value of the environment
\* variable; the environment variable has been unset since, and a second call
\* without override gives the contents of the file.
C18_Witness ==
    /\ got.called
    /\ got.override.none
    /\ got.before = Some(Returned(RStr(<<"v">>)))
    /\ ~RawField("env").none
    /\ EnvValue.none
    /\ FileValue = Some(<<"w", "w">>)
    /\ got.value = Returned(RStr(<<"w", "w">>))

\* The argument at position i is --var.<name> without "=".
IsSplit(i) == StartsWithVar(argv[i]) /\ ~HasEquals(argv[i])
\* The command line with the arguments at i and i + 1, --var.<name> and a
\* value, written as the one argument --var.<name>=<value>.
JoinedAt(i) ==
    SubSeq(argv, 1, i - 1) \o <<argv[i] \o <<"=">> \o argv[i + 1]>>
        \o SubSeq(argv, i + 2, Len(argv))
\* parse_args(args) has been called.
ArgsParsed == argv # <<>> /\ pc # "parse_args"

\* C19: a command line with --var.<name> followed by a value, and the
\* same command line with --var.<name>=<value> in their place, give the same
\* Request, or fail both: the value is an override and not a task name.
C19_SplitAsJoined ==
    ArgsParsed =>
       \A i \in 1..(Len(argv) - 1) :
          IsSplit(i) =>
             LET split == parse_args(argv)
                 joined == parse_args(JoinedAt(i))
             IN /\ split.ok = joined.ok
                /\ split.ok => split.request = joined.request

\* C20: --var.<name> without "=", last or followed by another --var.
\* argument, makes parse_args exit with the code 1 and is listed among the
\* unrecognized arguments.
C20_MissingValue ==
    ArgsParsed =>
       \A i \in 1..Len(argv) :
          (IsSplit(i) /\ (i = Len(argv) \/ StartsWithVar(argv[i + 1])))
          => /\ pc = "returned"
             /\ return_code = Some(1)
             /\ Len(stderr) = 1
             /\ \E k \in 1..Len(stderr[1].names) : stderr[1].names[k] = argv[i]

\* The raw definition of the task t in the document.
Raw(t) == Get(document.tasks, t)
\* The strings of a raw "cmd" value, and the resolved commands of the tasks
\* that a raw "deps" value lists, in list order.
CmdStrings(value) ==
    IF value.type = "str" THEN <<value.str>>
    ELSE [i \in 1..Len(value.items) |-> value.items[i].str]
DepsCommands(value) ==
    Concat([i \in 1..Len(value.items) |-> Get(tasks, value.items[i].str)])

\* C21: a task written as a table resolves to what its keys give, in the
\* order the keys are written: under "cmd" its strings, under "deps" the
\* resolved commands of each task listed, in list order.  So deps then cmd
\* gives the commands of the dependencies first, cmd then deps gives them
\* last.
C21_KeyOrder ==
    pc \in AfterResolve =>
       \A i \in 1..Len(tasks) :
          LET raw == Raw(tasks[i].key)
          IN raw.type = "dict" =>
                tasks[i].value =
                   Concat([k \in 1..Len(raw.items) |->
                              IF raw.items[k].key = "cmd"
                              THEN CmdStrings(raw.items[k].value)
                              ELSE DepsCommands(raw.items[k].value)])

\* A loaded task written cmd then deps: its own commands come first, the
\* commands of the task it depends on after them.
C21_Witness ==
    /\ pc = "execute"
    /\ \E i \in 1..Len(tasks) :
          LET raw == Raw(tasks[i].key)
          IN /\ raw.type = "dict"
             /\ NamesOf(raw.items) = <<"cmd", "deps">>
             /\ Len(raw.items[2].value.items) >= 1
             /\ DepsCommands(raw.items[2].value) # <<>>
             /\ tasks[i].value =
                   CmdStrings(raw.items[1].value) \o DepsCommands(raw.items[2].value)

\* A list of strings none of which is empty.
NonEmptyStrings(value) ==
    /\ value.type = "list"
    /\ \A i \in 1..Len(value.items) :
          value.items[i].type = "str" /\ value.items[i].str # <<>>
\* A raw task definition is malformed: an empty string; a list with an item
\* that is no string or is empty; a table with a key other than cmd and
\* deps, with a cmd that is no string that has text and no list of such
\* strings, or with a deps that is no list of strings; any other type.
IsMalformed(raw) ==
    \/ raw.type = "str" /\ raw.str = <<>>
    \/ raw.type = "list" /\ ~NonEmptyStrings(raw)
    \/ /\ raw.type = "dict"
       /\ \E k \in 1..Len(raw.items) :
             LET key == raw.items[k].key
                 value == raw.items[k].value
             IN \/ key \notin {"cmd", "deps"}
                \/ /\ key = "cmd"
                   /\ ~(value.type = "str" /\ value.str # <<>>)
                   /\ ~NonEmptyStrings(value)
                \/ /\ key = "deps"
                   /\ ~(/\ value.type = "list"
                        /\ \A i \in 1..Len(value.items) : value.items[i].type = "str")
    \/ raw.type \notin {"str", "list", "dict"}
\* The places of the malformed tasks in the mapping of the document.
MalformedTasks == {i \in 1..Len(document.tasks) : IsMalformed(document.tasks[i].value)}
\* Reasons of an invalid-task error that are about the shape of a definition.
ShapeErrors ==
    {"EmptyTaskStepError", "InvalidTaskStepTypeError", "InvalidTaskCmdTypeError",
     "InvalidTaskCmdItemTypeError", "InvalidTaskDictError",
     "InvalidTaskDefinitionTypeError", "deps list items must be strings",
     "deps must be a list of strings"}
\* parse_tasks has been called on the tasks of a document that decodes.
TasksParsed ==
    /\ document.source = "ok"
    /\ pc \notin {"parse_args", "parse_pyproject_file", "parse_tasks"}

\* C22: when a task of the document is malformed, loading fails with an
\* invalid-task error that carries the name of the first malformed task in
\* mapping order and a reason about its shape; no Config is made, and run()
\* writes that one message and returns 1.
C22_MalformedTask ==
    (TasksParsed /\ MalformedTasks # {})
    => /\ pc = "returned"
       /\ return_code = Some(1)
       /\ error.class = "InvalidTaskError"
       /\ error.name = document.tasks[Min(MalformedTasks)].key
       /\ error.reason.kind \in ShapeErrors
       /\ tasks = <<>> /\ variables = <<>>
       /\ stderr = <<ConfigMessage(error)>>
       /\ stdout = <<>> /\ executed = <<>>

\* Two malformed tasks in two different ways, the first a table with a key
\* that is not known, the second an empty string: the error is the first's.
C22_Witness ==
    /\ pc = "returned"
    /\ Cardinality(MalformedTasks) = 2
    /\ document.tasks[1].value.type = "dict"
    /\ document.tasks[2].value = RStr(<<>>)
    /\ error = InvalidTaskError(document.tasks[1].key, InvalidTaskDictError("command"))

\* C23: every Command step of every parsed definition is a list of at
\* least one string, none of them empty, and every command of every
\* resolved task is a string that is not empty.
C23_NonEmptyCommands ==
    /\ \A i \in 1..Len(tasks_definitions) :
          \A k \in 1..Len(tasks_definitions[i].value) :
             LET step == tasks_definitions[i].value[k]
             IN ~step.ref =>
                   /\ step.steps # <<>>
                   /\ \A j \in 1..Len(step.steps) : step.steps[j] # <<>>
    /\ \A i \in 1..Len(tasks) :
          \A j \in 1..Len(tasks[i].value) : tasks[i].value[j] # <<>>

\* A raw variable definition that is neither a string nor a table, or a
\* table with a key other than default, env, file and secret.
IsInvalidVariable(raw) ==
    \/ raw.type \notin {"str", "dict"}
    \/ raw.type = "dict" /\ \E k \in 1..Len(raw.items) : raw.items[k].key \notin VariableKeys
\* The places of such definitions in the mapping of the document.
InvalidVariables ==
    {i \in 1..Len(document.variables) : IsInvalidVariable(document.variables[i].value)}
\* The Variable that the claim gives for a raw definition.
FromKeys(name, raw) ==
    IF raw.type = "str"
    THEN [name |-> name, env |-> None, file |-> None, default |-> Some(raw),
          secret |-> RBool(FALSE)]
    ELSE [name |-> name,
          env |-> IF Has(raw.items, "env") THEN Some(Get(raw.items, "env")) ELSE None,
          file |-> IF Has(raw.items, "file") THEN Some(Get(raw.items, "file")) ELSE None,
          default |-> IF Has(raw.items, "default") THEN Some(Get(raw.items, "default"))
                      ELSE None,
          secret |-> IF Has(raw.items, "secret") THEN Get(raw.items, "secret")
                     ELSE RBool(FALSE)]
\* parse_variables has been called: the tasks of the document have loaded.
VariablesParsed ==
    /\ document.source = "ok"
    /\ pc \in AfterLoad \cup {"returned", "raised"}
    /\ NamesOf(tasks) = NamesOf(document.tasks)

\* C24: when the tasks have loaded, either a variable definition is
\* neither a string nor a table of the keys default, env, file and secret,
\* and loading fails with an invalid-variable error that names such a
\* variable, or there is a Variable for each definition: of a string, not
\* secret with the string as its default and nothing else; of a table, what
\* its keys give.
C24_VariableShapes ==
    VariablesParsed =>
       IF InvalidVariables # {}
       THEN /\ pc = "returned"
            /\ return_code = Some(1)
            /\ error.class = "InvalidVariableError"
            /\ error.name \in {<<document.variables[i].key>> : i \in InvalidVariables}
            /\ variables = <<>>
       ELSE /\ error.class \notin {"InvalidVariableError", "TypeError"}
            /\ variables =
                  [i \in 1..Len(document.variables) |->
                      KV(document.variables[i].key,
                         FromKeys(document.variables[i].key, document.variables[i].value))]

\* C25: while the configuration is loaded, _resolve_all_tasks calls
\* _resolve_task only for a key of the graph, and a reference to a name
\* that is no key is always met with a chain of parents that is not empty:
\* parents[-1] is never taken of an empty chain.
C25_NonEmptyChain ==
    /\ error.class # "IndexError"
    /\ pc = "_resolve_all_tasks" =>
          /\ (stack = <<>> /\ pos <= Len(ToResolve(tasks_definitions))) => Defined(TopTask)
          /\ \A r \in Refs \cup {<<>>} :
                (AtReference(r) /\ ~Defined(r)) => Top.parents # <<>>

\* A reference to an undefined task is met two calls deep.
C25_Witness ==
    /\ AtReference(Undefined)
    /\ ~Defined(Undefined)
    /\ Len(Top.parents) = 2
    /\ Top.parents[1] # Top.parents[2]

\* C26: the commands of a requested task are all substituted in one step,
\* when the commands of the task requested before it have ended, with the
\* environment and the files as those commands left them; each command then
\* run is the one substituted then, whatever a command of the task itself
\* changes.
C26_SubstitutedBetweenTasks ==
    [][/\ (pc = "tasks" /\ pc' = "commands")
          => task' = get_task(tasks, variables, request.tasks[req_idx],
                              request.variables, environ, files).steps
       /\ pc = "commands"
          => /\ task' = task
             /\ executed' # executed => executed' = Append(executed, task[cmd_idx])]_vars

\* A then B are requested; the file of foo was changed while the commands
\* of A ran: both commands of A ran with the value of before, and the
\* command of B has been substituted with the value of after.
C26_Witness ==
    /\ pc = "commands"
    /\ request.tasks = << <<"A">>, <<"B">> >>
    /\ req_idx = 2
    /\ changes = 1
    /\ files[<<"F">>] = Some(<<"g">>)
    /\ executed = << <<"f", "f">>, <<"w", "f", "f">> >>
    /\ task = << <<"v", "g">> >>

\* The chain of each call of _resolve_task in progress is the names of the
\* calls that lead to it, itself included, all different and all defined.
ChainGrows ==
    \A i \in 1..Len(stack) :
       /\ stack[i].parents = [k \in 1..i |-> stack[k].task_name]
       /\ \A j \in 1..i : \A k \in 1..i : j # k => stack[j].task_name # stack[k].task_name
       /\ Defined(stack[i].task_name)
\* parse_tasks has ended: with the resolved tasks, or with an error.
Resolved ==
    \/ pc = "parse_variables" /\ NamesOf(tasks) = NamesOf(tasks_definitions)
    \/ pc \in {"returned", "raised"} /\ (document.source = "ok" => error # NoError)

\* C27: the chain of parents holds different task names and is one longer
\* at each level of the recursion, so that it is never deeper than the
\* number of tasks, and the resolution of the tasks of every document ends,
\* with the resolved tasks or with an error.
C27_Terminates ==
    /\ [](ChainGrows /\ Len(stack) <= Len(tasks_definitions))
    /\ <>Resolved

\* The recursion is as deep as the document has tasks.
C27_Witness ==
    /\ pc = "_resolve_all_tasks"
    /\ Len(tasks_definitions) = 4
    /\ Len(stack) = 4

\* Another value of the same length as v, and the environment or the files
\* with each value replaced by another one of the same length.
OtherValue(v) == [i \in 1..Len(v) |-> IF v[i] = "#" THEN "%" ELSE "#"]
OtherWorld(world) ==
    [x \in DOMAIN world |->
        IF world[x].none THEN None ELSE Some(OtherValue(world[x].value))]
\* Every variable that reads the environment or a file is secret.
SourcesSecret ==
    \A i \in 1..Len(variables) :
       (~variables[i].value.env.none \/ ~variables[i].value.file.none)
       => Truthy(variables[i].value.secret)
\* What a dry run of the request writes when the environment is env and the
\* files are fs.
DryOutput(env, fs) ==
    Concat([i \in 1..Len(request.tasks) |->
               get_task(tasks, variables, request.tasks[i], request.variables, env, fs).steps])

\* C28: what a dry run has written does not depend on the value of a
\* secret variable: the run of the same request with other values, of the
\* same lengths, in the environment and in the files that only secret
\* variables read, writes the same lines.
C28_SecretHidden ==
    (pc = "returned" /\ request.dry_run /\ return_code = Some(0) /\ SourcesSecret)
    => stdout = DryOutput(OtherWorld(environ), OtherWorld(files))

\* The placeholders of a step, one for each place where the step has one.
PlaceholdersOf(step) == SelectSeq(step, IsPlaceholder)
\* The values inserted into a step, one after the other.
Inserted(step) ==
    Concat([k \in 1..Len(PlaceholdersOf(step)) |->
               ResolvedValue(NameOf(PlaceholdersOf(step)[k]))])

\* C29: get_task inserts the values as they are and changes nothing else.
\* The text of a step that is no placeholder is in the result as it was,
\* and the result has the text of a placeholder exactly where an inserted
\* value has it: an inserted value is not substituted in its turn.
C29_Verbatim ==
    (pc = "commands" /\ cmd_idx = 1) =>
       \A i \in 1..Len(task) :
          LET step == Requested(req_idx)[i]
          IN /\ StrLen(task[i]) = StrLen(step) - StrLen(PlaceholdersOf(step))
                                      + StrLen(Inserted(step))
             /\ PlaceholdersOf(task[i]) = PlaceholdersOf(Inserted(step))

\* A task of the document refers to a task that the document does not
\* define, or to a task that leads back to it.
Unresolvable ==
    \/ Dangling # {}
    \/ \E i \in 1..Len(document.tasks) :
          RawReaches(document.tasks[i].key, document.tasks[i].key, Len(document.tasks))

\* C30: every task of the document is parsed before a task is resolved,
\* and every task is resolved before a variable is parsed.  So the error
\* of a malformed task is reported, not that of a circular or undefined
\* reference of any task, and the error of a task is reported, not that of
\* a variable.
C30_ErrorOrder ==
    /\ (stack # <<>> \/ tasks # <<>>)
       => NamesOf(tasks_definitions) = NamesOf(document.tasks)
    /\ (variables # <<>> \/ error.class \in {"InvalidVariableError", "TypeError"})
       => NamesOf(tasks) = NamesOf(document.tasks)
    /\ (TasksParsed /\ MalformedTasks # {}) => error.reason.kind \in ShapeErrors
    /\ (TasksParsed /\ pc # "_resolve_all_tasks" /\ (MalformedTasks # {} \/ Unresolvable))
       => error.class = "InvalidTaskError"

\* The first task refers to an undefined task, the second is an empty
\* string, the first variable is no string and no table: the error
\* reported is that of the second task.
C30_Witness ==
    /\ pc = "returned"
    /\ Len(document.tasks) = 2
    /\ Dangling # {}
    /\ MalformedTasks = {2}
    /\ InvalidVariables # {}
    /\ error = InvalidTaskError(document.tasks[2].key, EmptyTaskStepError)

====
